---- MODULE Spec2Model ----
(***************************************************************************)
(* Model of the five-stage graph-construction pipeline                     *)
(* (OntologyBuilder -> EntitySearchExpander -> TaxonomyBuilder ->          *)
(* QueryMapper -> HubDesigner) driven by process_framework in app.py.      *)
(*                                                                         *)
(* Representation choices                                                  *)
(*  - a Python str is a sequence of one-character strings, so that lower,  *)
(*    strip, split, substring and replace are computed, not assumed;       *)
(*  - a dict is the sequence of its values in insertion order (Python      *)
(*    dicts keep the position of a key that is assigned again);            *)
(*  - the md5-suffixed ids are injective in the text that is hashed        *)
(*    (hash collisions are not modelled); an id is the hashed text with    *)
(*    a marker for its prefix;                                             *)
(*  - floats that are fixed decimals are counted in tenths; computed       *)
(*    ratios are kept as exact fractions [num, den];                       *)
(*  - description, context and SEO text fields are formatted output that   *)
(*    no operation reads back; they are left out.                          *)
(***************************************************************************)
EXTENDS Integers, Sequences, FiniteSets, TLC

VARIABLES
  config,             \* the BrandFoundationConfig of the run
  sitemap_outcome,    \* what the SitemapParser call of build() did
  builder,            \* the OntologyBuilder: self.entities, self.relationships
  ontology,           \* the Ontology of the run
  other,              \* the Ontology a second, new OntologyBuilder returns
  taxonomy,           \* the Taxonomy of the run
  query_clusters,     \* the list of QueryCluster of the run
  added,              \* the add_query calls made on the clusters afterwards
  designer_clusters,  \* the clusters the HubDesigner was constructed with
  hubs,               \* the list of ContentHub of the run
  pc,                 \* the step of process_framework that has run last
  session,            \* st.session_state
  form                \* the widget values of the last press of the button

vars == <<config, sitemap_outcome, builder, ontology, other, taxonomy,
          query_clusters, added, designer_clusters, hubs, pc, session, form>>

\* None is the empty sequence: every id and every str field that is tested
\* against None is a non-empty sequence
None == << >>

(***************************************************************************)
(* Bounds of the explored inputs                                           *)
(***************************************************************************)
MaxSeeds == 2
MaxCompetitors == 1
MaxCandidates == 1
NumHashSeeds == 2
WideSeedCount == 16
MaxAddedQueries == 1
MaxInterruptedItems == 2

(***************************************************************************)
(* Python str operations                                                   *)
(***************************************************************************)
UpperAlphabet ==
  <<"A","B","C","D","E","F","G","H","I","J","K","L","M",
    "N","O","P","Q","R","S","T","U","V","W","X","Y","Z">>

LowerAlphabet ==
  <<"a","b","c","d","e","f","g","h","i","j","k","l","m",
    "n","o","p","q","r","s","t","u","v","w","x","y","z">>

IsUpper(c) == \E i \in 1..26 : UpperAlphabet[i] = c

IsLowerLetter(c) == \E i \in 1..26 : LowerAlphabet[i] = c

LowerChar(c) ==
  IF IsUpper(c)
    THEN LowerAlphabet[CHOOSE i \in 1..26 : UpperAlphabet[i] = c]
    ELSE c

UpperChar(c) ==
  IF IsLowerLetter(c)
    THEN UpperAlphabet[CHOOSE i \in 1..26 : LowerAlphabet[i] = c]
    ELSE c

IsSpace(c) == c = " "

Lower(s) == [i \in 1..Len(s) |-> LowerChar(s[i])]

\* the indices of the characters of s that are no whitespace
NonSpace(s) == {i \in 1..Len(s) : ~IsSpace(s[i])}

LStrip(s) ==
  IF NonSpace(s) = {} THEN << >>
  ELSE SubSeq(s, CHOOSE i \in NonSpace(s) : \A j \in NonSpace(s) : i <= j,
              Len(s))

RStrip(s) ==
  IF NonSpace(s) = {} THEN << >>
  ELSE SubSeq(s, 1,
              CHOOSE i \in NonSpace(s) : \A j \in NonSpace(s) : j <= i)

Strip(s) == RStrip(LStrip(s))

\* sub in s
Contains(s, sub) ==
  \E i \in 0..(Len(s) - Len(sub)) : SubSeq(s, i + 1, i + Len(sub)) = sub

EndsWith(s, suf) ==
  Len(suf) <= Len(s) /\ SubSeq(s, Len(s) - Len(suf) + 1, Len(s)) = suf

StartsWith(s, pre) ==
  Len(pre) <= Len(s) /\ SubSeq(s, 1, Len(pre)) = pre

\* the elements of s at the indices idx, in the order of s
AtIndices(s, idx) ==
  [k \in 1..Cardinality(idx) |->
     s[CHOOSE i \in idx : Cardinality({j \in idx : j < i}) = k - 1]]

\* str.split(): the words between runs of whitespace
Split(s) ==
  LET starts == {i \in NonSpace(s) : i = 1 \/ IsSpace(s[i - 1])}
      EndOf(i) ==
        CHOOSE j \in i..Len(s) :
          /\ \A k \in i..j : ~IsSpace(s[k])
          /\ (j = Len(s) \/ IsSpace(s[j + 1]))
      words == [i \in 1..Len(s) |-> SubSeq(s, i, EndOf(i))]
  IN  AtIndices(words, starts)

ReplaceChar(s, a, b) == [i \in 1..Len(s) |-> IF s[i] = a THEN b ELSE s[i]]

HasChar(s, c) == \E i \in 1..Len(s) : s[i] = c

Range(f) == {f[i] : i \in DOMAIN f}

Min(a, b) == IF a <= b THEN a ELSE b

Max(a, b) == IF a >= b THEN a ELSE b

Prefix(s, n) == SubSeq(s, 1, Min(n, Len(s)))

\* the lists of a list of lists, joined in order
RECURSIVE ConcatRange(_, _, _)
ConcatRange(seqs, lo, hi) ==
  IF lo > hi THEN << >>
  ELSE IF lo = hi THEN seqs[lo]
  ELSE LET mid == (lo + hi) \div 2
       IN  ConcatRange(seqs, lo, mid) \o ConcatRange(seqs, mid + 1, hi)

Concat(seqs) == ConcatRange(seqs, 1, Len(seqs))

(***************************************************************************)
(* data_models.py                                                          *)
(***************************************************************************)
EntityType == {"core", "supporting", "competitor", "attribute"}

RelationshipType ==
  {"is_a", "part_of", "used_for", "relates_to", "requires",
   "alternative_to", "enables", "contrasts_with"}

IntentType ==
  {"informational", "navigational", "commercial", "transactional", "local"}

SourceMode == {"seed", "sitemap", "hybrid"}

\* Entity(...) with the field defaults of the model class
Entity(id, name, type, aliases, attributes, source_urls) ==
  [id |-> id, name |-> name, type |-> type, aliases |-> aliases,
   attributes |-> attributes,
   commercial_value |-> 5,
   semantic_centrality |-> [num |-> 1, den |-> 2],
   source_urls |-> source_urls]

\* Relationship(...); weight in tenths
Relationship(source_id, target_id, relationship_type, weight, bidirectional) ==
  [source_id |-> source_id, target_id |-> target_id,
   relationship_type |-> relationship_type, weight |-> weight,
   bidirectional |-> bidirectional]

\* dict lookups on a dict kept as the sequence of its values
HasId(d, id) == \E i \in 1..Len(d) : d[i].id = id

GetById(d, id) == d[CHOOSE i \in 1..Len(d) : d[i].id = id]

\* d[e.id] = e
DictSet(d, e) ==
  IF HasId(d, e.id)
    THEN [i \in 1..Len(d) |-> IF d[i].id = e.id THEN e ELSE d[i]]
    ELSE Append(d, e)

(***************************************************************************)
(* core/ontology_builder.py                                                *)
(***************************************************************************)
\* _generate_entity_id without the lower(): ids that keep the case
GenerateEntityIdKeepCase(name) == Strip(name)

\* _generate_entity_id: slug and md5 suffix of name.lower().strip()
GenerateEntityId(name) == Strip(Lower(name))

\* _generate_aliases
GenerateAliases(entity_name) ==
  LET name == Strip(entity_name)
      number ==
        IF EndsWith(name, <<"s">>) /\ Len(name) > 3
          THEN << SubSeq(name, 1, Len(name) - 1) >>
          ELSE IF ~EndsWith(name, <<"s">>)
            THEN << name \o <<"s">> >>
            ELSE << >>
      words == Split(name)
      acronym == [i \in 1..Len(words) |-> UpperChar(words[i][1])]
      abbr ==
        IF Len(words) > 1 /\ Len(acronym) >= 2 THEN << acronym >> ELSE << >>
      format ==
        IF HasChar(name, "-")
          THEN << ReplaceChar(name, "-", " ") >>
          ELSE IF HasChar(name, " ")
            THEN << ReplaceChar(name, " ", "-") >>
            ELSE << >>
  IN  number \o abbr \o format

\* _add_brand_entity
AddBrandEntity(entities, cfg) ==
  LET brand_id == GenerateEntityId(cfg.brand_name)
      brand == [Entity(brand_id, cfg.brand_name, "core", <<>>,
                       [niche |-> cfg.primary_niche], <<>>)
                 EXCEPT !.commercial_value = 10,
                        !.semantic_centrality = [num |-> 1, den |-> 1]]
  IN  DictSet(entities, brand)

\* the body of the first loop of _create_from_seeds
AddSeed(entities, raw_seed) ==
  LET seed == Strip(raw_seed)
      entity_id == GenerateEntityId(seed)
  IN  IF Len(seed) = 0 \/ HasId(entities, entity_id) THEN entities
      ELSE Append(entities,
                  Entity(entity_id, seed, "core", GenerateAliases(seed),
                         <<>>, <<>>))

\* the first loop of _create_from_seeds, over seeds[lo..hi]
RECURSIVE AddSeeds(_, _, _, _)
AddSeeds(entities, seeds, lo, hi) ==
  IF lo > hi THEN entities
  ELSE IF lo = hi THEN AddSeed(entities, seeds[lo])
  ELSE LET mid == (lo + hi) \div 2
       IN  CHOOSE after \in
             {AddSeeds(first, seeds, mid + 1, hi) :
                first \in {AddSeeds(entities, seeds, lo, mid)}} : TRUE

\* the body of the second loop of _create_from_seeds
AddCompetitor(entities, raw_competitor) ==
  LET competitor == Strip(raw_competitor)
      entity_id == GenerateEntityId(competitor)
  IN  IF Len(competitor) = 0 \/ HasId(entities, entity_id) THEN entities
      ELSE Append(entities,
                  Entity(entity_id, competitor, "competitor",
                         <<>>, <<>>, <<>>))

\* the second loop of _create_from_seeds, over competitors[lo..hi]
RECURSIVE AddCompetitors(_, _, _, _)
AddCompetitors(entities, competitors, lo, hi) ==
  IF lo > hi THEN entities
  ELSE IF lo = hi THEN AddCompetitor(entities, competitors[lo])
  ELSE LET mid == (lo + hi) \div 2
       IN  CHOOSE after \in
             {AddCompetitors(first, competitors, mid + 1, hi) :
                first \in {AddCompetitors(entities, competitors, lo, mid)}} : TRUE

\* _create_from_seeds
CreateFromSeeds(entities, cfg) ==
  AddCompetitors(AddSeeds(entities, cfg.seed_entities, 1,
                          Len(cfg.seed_entities)),
                 cfg.competitors, 1, Len(cfg.competitors))

\* the candidates one call of extract_entities_from_sitemap hands over are
\* read by _extract_from_sitemap up to this many
SitemapLimit == 50

\* the body of the loop of _extract_from_sitemap with an else branch that
\* stores the candidate's entity over the existing one
IngestCandidateOverwriting(entities, item) ==
  DictSet(entities,
          Entity(GenerateEntityId(item.name), item.name,
                 IF item.frequency > 1 THEN "core" ELSE "supporting",
                 <<>>,
                 [frequency |-> item.frequency,
                  categories |-> item.categories],
                 item.source_urls))

\* the body of the loop of _extract_from_sitemap
IngestCandidate(entities, item) ==
  LET entity_id == GenerateEntityId(item.name)
  IN  IF ~HasId(entities, entity_id)
        THEN Append(entities,
                    Entity(entity_id, item.name,
                           IF item.frequency > 1 THEN "core" ELSE "supporting",
                           <<>>,
                           [frequency |-> item.frequency,
                            categories |-> item.categories],
                           item.source_urls))
        ELSE LET existing == GetById(entities, entity_id)
             IN  DictSet(entities,
                         [existing EXCEPT !.source_urls =
                            existing.source_urls \o item.source_urls])

\* the loop of _extract_from_sitemap, over items[lo..hi]
RECURSIVE IngestCandidates(_, _, _, _)
IngestCandidates(entities, items, lo, hi) ==
  IF lo > hi THEN entities
  ELSE IF lo = hi THEN IngestCandidate(entities, items[lo])
  ELSE LET mid == (lo + hi) \div 2
       IN  CHOOSE after \in
             {IngestCandidates(first, items, mid + 1, hi) :
                first \in {IngestCandidates(entities, items, lo, mid)}} : TRUE

\* _extract_from_sitemap; outcome is what happens inside its try block:
\* the SitemapParser call returns the list outcome.extracted and the loop
\* runs to its end, or an exception is raised after outcome.done passes of
\* the loop (by the parser itself when nothing was extracted) and the
\* except clause ends the method
ExtractFromSitemap(entities, cfg, outcome) ==
  IF cfg.sitemap_url = None THEN entities
  ELSE LET items == Prefix(outcome.extracted, SitemapLimit)
       IN  IF outcome.raised
             THEN IngestCandidates(entities, items, 1, outcome.done)
             ELSE IngestCandidates(entities, items, 1, Len(items))

StopWords == {<<"t", "h", "e">>, <<"a">>, <<"a", "n">>, <<"a", "n", "d">>, <<"o", "r">>, <<"f", "o", "r">>, <<"o", "f">>, <<"i", "n">>}

\* _detect_relationship without its elif branch: containment is seen only
\* when the first entity's name is the contained one
DetectRelationshipOneWay(e1, e2) ==
  LET name1 == Lower(e1.name)
      name2 == Lower(e2.name)
      common == (Range(Split(name1)) \cap Range(Split(name2))) \ StopWords
  IN  IF Contains(name2, name1) /\ name1 # name2
        THEN << Relationship(e2.id, e1.id, "is_a", 7, FALSE) >>
      ELSE IF common # {} /\ Cardinality(common) >= 1
        THEN << Relationship(e1.id, e2.id, "relates_to", 5, TRUE) >>
      ELSE << >>

\* _detect_relationship: the list of the zero or one relationship it returns
DetectRelationship(e1, e2) ==
  LET name1 == Lower(e1.name)
      name2 == Lower(e2.name)
      common == (Range(Split(name1)) \cap Range(Split(name2))) \ StopWords
  IN  IF Contains(name2, name1) /\ name1 # name2
        THEN << Relationship(e2.id, e1.id, "is_a", 7, FALSE) >>
      ELSE IF Contains(name1, name2) /\ name1 # name2
        THEN << Relationship(e1.id, e2.id, "is_a", 7, FALSE) >>
      ELSE IF common # {} /\ Cardinality(common) >= 1
        THEN << Relationship(e1.id, e2.id, "relates_to", 5, TRUE) >>
      ELSE << >>

\* the first loop of _infer_relationships with the type tests gone: every
\* entity but the brand gets the part_of edge
BrandEdgeAnyType(entity, brand_id) ==
  IF entity.id = brand_id THEN << >>
  ELSE << Relationship(entity.id, brand_id, "part_of", 8, FALSE) >>

\* first loop of _infer_relationships: the relationships one entity adds
BrandEdge(entity, brand_id) ==
  LET part_of ==
        IF entity.type = "core"
          THEN << Relationship(entity.id, brand_id, "part_of", 8, FALSE) >>
          ELSE << >>
      alternative_to ==
        IF entity.type = "competitor"
          THEN << Relationship(entity.id, brand_id, "alternative_to", 6, TRUE) >>
          ELSE << >>
  IN  IF entity.id = brand_id THEN << >> ELSE part_of \o alternative_to

\* first loop of _infer_relationships
BrandEdges(entity_list, brand_id) ==
  Concat([i \in 1..Len(entity_list) |-> BrandEdge(entity_list[i], brand_id)])

\* second loop of _infer_relationships: for every entity, in order, the
\* relationships with the entities behind it, in order
PairEdges(entity_list) ==
  Concat([i \in 1..Len(entity_list) |->
            Concat([k \in 1..(Len(entity_list) - i) |->
                      DetectRelationship(entity_list[i], entity_list[i + k])])])

\* _infer_relationships appending to one list that every builder shares,
\* as a list created at class level is shared
InferRelationshipsShared(entities, relationships, cfg) ==
  builder.relationships
    \o BrandEdges(entities, GenerateEntityId(cfg.brand_name))
    \o PairEdges(entities)

\* _infer_relationships: the value of self.relationships afterwards
InferRelationships(entities, relationships, cfg) ==
  relationships
    \o BrandEdges(entities, GenerateEntityId(cfg.brand_name))
    \o PairEdges(entities)

\* relationship_counts.get(entity_id, 0)
RelCount(relationships, entity_id) ==
  Cardinality({i \in 1..Len(relationships) :
                 relationships[i].source_id = entity_id})
  + Cardinality({i \in 1..Len(relationships) :
                   relationships[i].target_id = entity_id})

MaxOf(S) == IF S = {} THEN 0 ELSE CHOOSE x \in S : \A y \in S : y <= x

CommercialValue(type) ==
  CASE type = "core" -> 8
    [] type = "supporting" -> 4
    [] type = "competitor" -> 3
    [] OTHER -> 5

\* _calculate_entity_scores; min(1.0, rel_count / max_rels + 0.2) is the
\* fraction min(5 * rel_count + max_rels, 5 * max_rels) / (5 * max_rels)
CalculateEntityScores(entities, relationships) ==
  LET ids == {relationships[i].source_id : i \in 1..Len(relationships)}
             \cup {relationships[i].target_id : i \in 1..Len(relationships)}
      max_rels ==
        IF ids = {} THEN 1
        ELSE MaxOf({RelCount(relationships, id) : id \in ids})
  IN  [i \in 1..Len(entities) |->
         LET rel_count == RelCount(relationships, entities[i].id)
         IN  [entities[i] EXCEPT
                !.semantic_centrality =
                   [num |-> Min(5 * rel_count + max_rels, 5 * max_rels),
                    den |-> 5 * max_rels],
                !.commercial_value = CommercialValue(entities[i].type)]]

\* OntologyBuilder.__init__
OntologyBuilderNew == [entities |-> << >>, relationships |-> << >>]

\* the entity extraction of build(), by source mode
ExtractEntities(entities, cfg, outcome) ==
  IF cfg.source_mode = "sitemap"
    THEN ExtractFromSitemap(entities, cfg, outcome)
  ELSE IF cfg.source_mode = "seed"
    THEN CreateFromSeeds(entities, cfg)
  ELSE IF cfg.sitemap_url # None
    THEN ExtractFromSitemap(CreateFromSeeds(entities, cfg), cfg, outcome)
  ELSE CreateFromSeeds(entities, cfg)

\* build() with no try block in _extract_from_sitemap: an exception of the
\* extraction ends build() before the brand entity, the relationships and
\* the scores
BuildBuilderUnguarded(b, cfg, outcome) ==
  LET extracted == ExtractEntities(b.entities, cfg, outcome)
      with_brand == AddBrandEntity(extracted, cfg)
      rels == InferRelationships(with_brand, b.relationships, cfg)
  IN  IF outcome.raised
        THEN [entities |-> extracted, relationships |-> b.relationships]
        ELSE [entities |-> CalculateEntityScores(with_brand, rels),
              relationships |-> rels]

\* build(): the builder's state when it returns
BuildBuilder(b, cfg, outcome) ==
  LET extracted == ExtractEntities(b.entities, cfg, outcome)
      with_brand == AddBrandEntity(extracted, cfg)
      rels == InferRelationships(with_brand, b.relationships, cfg)
  IN  [entities |-> CalculateEntityScores(with_brand, rels),
       relationships |-> rels]

\* the Ontology that build() returns
OntologyOf(b, cfg) ==
  [brand_name |-> cfg.brand_name, entities |-> b.entities,
   relationships |-> b.relationships]

(***************************************************************************)
(* core/entity_search.py                                                   *)
(***************************************************************************)
SUFFIX_PATTERNS ==
  << [base |-> <<"t", "o", "o", "l">>,
      related |-> <<<<"t", "o", "o", "l", "s">>, <<"s", "o", "f", "t", "w", "a", "r", "e">>, <<"p", "l", "a", "t", "f", "o", "r", "m">>, <<"a", "p", "p">>, <<"a", "p", "p", "l", "i", "c", "a", "t", "i", "o", "n">>>>],
     [base |-> <<"s", "e", "r", "v", "i", "c", "e">>,
      related |-> <<<<"s", "e", "r", "v", "i", "c", "e", "s">>, <<"s", "o", "l", "u", "t", "i", "o", "n">>, <<"s", "o", "l", "u", "t", "i", "o", "n", "s">>>>],
     [base |-> <<"g", "u", "i", "d", "e">>,
      related |-> <<<<"g", "u", "i", "d", "e", "s">>, <<"t", "u", "t", "o", "r", "i", "a", "l">>, <<"t", "u", "t", "o", "r", "i", "a", "l", "s">>, <<"h", "o", "w", "-", "t", "o">>>>],
     [base |-> <<"t", "i", "p", "s">>,
      related |-> <<<<"t", "i", "p", "s">>, <<"a", "d", "v", "i", "c", "e">>, <<"b", "e", "s", "t", " ", "p", "r", "a", "c", "t", "i", "c", "e", "s">>, <<"s", "t", "r", "a", "t", "e", "g", "i", "e", "s">>>>],
     [base |-> <<"r", "e", "v", "i", "e", "w">>,
      related |-> <<<<"r", "e", "v", "i", "e", "w", "s">>, <<"c", "o", "m", "p", "a", "r", "i", "s", "o", "n">>, <<"v", "s">>, <<"a", "l", "t", "e", "r", "n", "a", "t", "i", "v", "e", "s">>>>] >>

ABBREVIATIONS ==
  << [abbr |-> <<"s", "e", "o">>, expansion |-> <<"s", "e", "a", "r", "c", "h", " ", "e", "n", "g", "i", "n", "e", " ", "o", "p", "t", "i", "m", "i", "z", "a", "t", "i", "o", "n">>],
     [abbr |-> <<"s", "e", "m">>, expansion |-> <<"s", "e", "a", "r", "c", "h", " ", "e", "n", "g", "i", "n", "e", " ", "m", "a", "r", "k", "e", "t", "i", "n", "g">>],
     [abbr |-> <<"p", "p", "c">>, expansion |-> <<"p", "a", "y", " ", "p", "e", "r", " ", "c", "l", "i", "c", "k">>],
     [abbr |-> <<"c", "r", "o">>, expansion |-> <<"c", "o", "n", "v", "e", "r", "s", "i", "o", "n", " ", "r", "a", "t", "e", " ", "o", "p", "t", "i", "m", "i", "z", "a", "t", "i", "o", "n">>],
     [abbr |-> <<"u", "x">>, expansion |-> <<"u", "s", "e", "r", " ", "e", "x", "p", "e", "r", "i", "e", "n", "c", "e">>],
     [abbr |-> <<"u", "i">>, expansion |-> <<"u", "s", "e", "r", " ", "i", "n", "t", "e", "r", "f", "a", "c", "e">>],
     [abbr |-> <<"a", "p", "i">>, expansion |-> <<"a", "p", "p", "l", "i", "c", "a", "t", "i", "o", "n", " ", "p", "r", "o", "g", "r", "a", "m", "m", "i", "n", "g", " ", "i", "n", "t", "e", "r", "f", "a", "c", "e">>],
     [abbr |-> <<"a", "i">>, expansion |-> <<"a", "r", "t", "i", "f", "i", "c", "i", "a", "l", " ", "i", "n", "t", "e", "l", "l", "i", "g", "e", "n", "c", "e">>],
     [abbr |-> <<"m", "l">>, expansion |-> <<"m", "a", "c", "h", "i", "n", "e", " ", "l", "e", "a", "r", "n", "i", "n", "g">>],
     [abbr |-> <<"s", "a", "a", "s">>, expansion |-> <<"s", "o", "f", "t", "w", "a", "r", "e", " ", "a", "s", " ", "a", " ", "s", "e", "r", "v", "i", "c", "e">>],
     [abbr |-> <<"b", "2", "b">>, expansion |-> <<"b", "u", "s", "i", "n", "e", "s", "s", " ", "t", "o", " ", "b", "u", "s", "i", "n", "e", "s", "s">>],
     [abbr |-> <<"b", "2", "c">>, expansion |-> <<"b", "u", "s", "i", "n", "e", "s", "s", " ", "t", "o", " ", "c", "o", "n", "s", "u", "m", "e", "r">>],
     [abbr |-> <<"r", "o", "i">>, expansion |-> <<"r", "e", "t", "u", "r", "n", " ", "o", "n", " ", "i", "n", "v", "e", "s", "t", "m", "e", "n", "t">>],
     [abbr |-> <<"k", "p", "i">>, expansion |-> <<"k", "e", "y", " ", "p", "e", "r", "f", "o", "r", "m", "a", "n", "c", "e", " ", "i", "n", "d", "i", "c", "a", "t", "o", "r">>],
     [abbr |-> <<"c", "m", "s">>, expansion |-> <<"c", "o", "n", "t", "e", "n", "t", " ", "m", "a", "n", "a", "g", "e", "m", "e", "n", "t", " ", "s", "y", "s", "t", "e", "m">>],
     [abbr |-> <<"c", "r", "m">>, expansion |-> <<"c", "u", "s", "t", "o", "m", "e", "r", " ", "r", "e", "l", "a", "t", "i", "o", "n", "s", "h", "i", "p", " ", "m", "a", "n", "a", "g", "e", "m", "e", "n", "t">>] >>

\* str.replace(old, new) for a non-empty old
RECURSIVE Replace(_, _, _)
Replace(s, old, new) ==
  IF Len(s) < Len(old) THEN s
  ELSE IF StartsWith(s, old)
    THEN new \o Replace(SubSeq(s, Len(old) + 1, Len(s)), old, new)
    ELSE << s[1] >> \o Replace(Tail(s), old, new)

RemoveChar(s, c) == SelectSeq(s, LAMBDA x : x # c)

\* " ".join(words)
JoinWords(words) ==
  Concat([i \in 1..Len(words) |->
            IF i = 1 THEN words[i] ELSE << " " >> \o words[i]])

IsAbbreviation(word) ==
  \E i \in 1..Len(ABBREVIATIONS) : ABBREVIATIONS[i].abbr = word

ExpansionOf(word) ==
  ABBREVIATIONS[CHOOSE i \in 1..Len(ABBREVIATIONS) :
                  ABBREVIATIONS[i].abbr = word].expansion

\* _expand_abbreviations
ExpandAbbreviations(name) ==
  LET name_lower == Lower(name)
      words == Split(name_lower)
      whole ==
        IF IsAbbreviation(name_lower) THEN {ExpansionOf(name_lower)} ELSE {}
      within ==
        {JoinWords([words EXCEPT ![i] = ExpansionOf(words[i])]) :
           i \in {k \in 1..Len(words) : IsAbbreviation(words[k])}}
      reverse ==
        {Replace(name_lower, Lower(ABBREVIATIONS[i].expansion),
                 ABBREVIATIONS[i].abbr) :
           i \in {k \in 1..Len(ABBREVIATIONS) :
                    Contains(name_lower, Lower(ABBREVIATIONS[k].expansion))}}
  IN  whole \cup within \cup reverse

DropLast(s, n) == SubSeq(s, 1, Len(s) - n)

Vowels == {"a", "e", "i", "o", "u"}

\* _generate_number_variants
GenerateNumberVariants(name) ==
  LET name_lower == Lower(name)
  IN  IF EndsWith(name_lower, <<"s">>) /\ ~EndsWith(name_lower, <<"s", "s">>)
        THEN {DropLast(name_lower, 1)}
             \cup (IF EndsWith(name_lower, <<"i", "e", "s">>)
                     THEN {DropLast(name_lower, 3) \o <<"y">>}
                   ELSE IF EndsWith(name_lower, <<"e", "s">>)
                     THEN {DropLast(name_lower, 2)}
                   ELSE {})
      ELSE IF EndsWith(name_lower, <<"y">>) /\ Len(name_lower) > 2
        THEN IF name_lower[Len(name_lower) - 1] \notin Vowels
               THEN {DropLast(name_lower, 1) \o <<"i", "e", "s">>}
               ELSE {name_lower \o <<"s">>}
      ELSE IF \/ EndsWith(name_lower, <<"s">>) \/ EndsWith(name_lower, <<"x">>)
              \/ EndsWith(name_lower, <<"z">>) \/ EndsWith(name_lower, <<"c", "h">>)
              \/ EndsWith(name_lower, <<"s", "h">>)
        THEN {name_lower \o <<"e", "s">>}
      ELSE {name_lower \o <<"s">>}

\* re.sub("([A-Z])", r" \1", name)
SpaceBeforeUpper(s) ==
  Concat([i \in 1..Len(s) |->
            IF IsUpper(s[i]) THEN << " ", s[i] >> ELSE << s[i] >>])

\* _generate_format_variants
GenerateFormatVariants(name) ==
  LET separators ==
        IF HasChar(name, "-")
          THEN {ReplaceChar(name, "-", " "), RemoveChar(name, "-")}
        ELSE IF HasChar(name, " ")
          THEN {ReplaceChar(name, " ", "-"), RemoveChar(name, " ")}
        ELSE {}
      split == Lower(Strip(SpaceBeforeUpper(name)))
      camel ==
        IF ~HasChar(name, " ") /\ ~HasChar(name, "-") /\ split # Lower(name)
          THEN {split, ReplaceChar(split, " ", "-")}
          ELSE {}
  IN  separators \cup camel

\* _generate_suffix_variants
GenerateSuffixVariants(name) ==
  UNION {
    IF EndsWith(name, SUFFIX_PATTERNS[i].base)
      THEN {DropLast(name, Len(SUFFIX_PATTERNS[i].base)) \o suffix :
              suffix \in Range(SUFFIX_PATTERNS[i].related)
                           \ {SUFFIX_PATTERNS[i].base}}
      ELSE {} : i \in 1..Len(SUFFIX_PATTERNS)}

industry_prefixes == {<<"d", "i", "g", "i", "t", "a", "l">>, <<"o", "n", "l", "i", "n", "e">>, <<"c", "l", "o", "u", "d">>, <<"m", "o", "d", "e", "r", "n">>, <<"a", "d", "v", "a", "n", "c", "e", "d">>}

\* _generate_industry_variants
GenerateIndustryVariants(name) ==
  {SubSeq(name, Len(prefix) + 2, Len(name)) :
     prefix \in {p \in industry_prefixes : StartsWith(name, p \o <<" ">>)}}

\* the alias set of an _expand_entity that also takes the number variants
\* of every alias the entity has
ExpandedAliasSetOfAliases(entity) ==
  LET name_lower == Lower(entity.name)
      new_aliases ==
        Range(entity.aliases)
          \cup ExpandAbbreviations(name_lower)
          \cup GenerateNumberVariants(entity.name)
          \cup UNION {GenerateNumberVariants(alias) :
                        alias \in Range(entity.aliases)}
          \cup GenerateFormatVariants(entity.name)
          \cup GenerateSuffixVariants(name_lower)
          \cup GenerateIndustryVariants(name_lower)
  IN  {alias \in new_aliases :
         Len(alias) > 0 /\ Lower(alias) # name_lower /\ Len(alias) >= 2}

\* the alias set _expand_entity computes for an entity
ExpandedAliasSet(entity) ==
  LET name_lower == Lower(entity.name)
      new_aliases ==
        Range(entity.aliases)
          \cup ExpandAbbreviations(name_lower)
          \cup GenerateNumberVariants(entity.name)
          \cup GenerateFormatVariants(entity.name)
          \cup GenerateSuffixVariants(name_lower)
          \cup GenerateIndustryVariants(name_lower)
  IN  {alias \in new_aliases :
         Len(alias) > 0 /\ Lower(alias) # name_lower /\ Len(alias) >= 2}

\* the elements of a set in one fixed order
RECURSIVE CanonicalOrder(_)
CanonicalOrder(S) ==
  IF S = {} THEN << >>
  ELSE LET x == CHOOSE x \in S : TRUE
       IN  << x >> \o CanonicalOrder(S \ {x})

Reverse(s) == [i \in 1..Len(s) |-> s[Len(s) + 1 - i]]

\* list(a_set): the iteration order of a set of str depends on the string
\* hash seed of the process; the orders of the seeds 1, 2, ... are the
\* rotations of one order, every second one reversed
SetToList(S, hash_seed) ==
  LET c == CanonicalOrder(S)
      n == Len(c)
      r == [i \in 1..n |-> c[((i - 1 + (hash_seed - 1)) % n) + 1]]
  IN  IF hash_seed % 2 = 0 THEN Reverse(r) ELSE r

\* _expand_entity writing the lower-cased name back to the entity as well
ExpandEntityRenaming(entity, hash_seed) ==
  [entity EXCEPT !.aliases = SetToList(ExpandedAliasSet(entity), hash_seed),
                 !.name = Lower(entity.name)]

\* _expand_entity
ExpandEntity(entity, hash_seed) ==
  [entity EXCEPT !.aliases = SetToList(ExpandedAliasSet(entity), hash_seed)]

\* expand_all_entities
ExpandAllEntities(ont, hash_seed) ==
  [ont EXCEPT !.entities =
     [i \in 1..Len(ont.entities) |-> ExpandEntity(ont.entities[i], hash_seed)]]

(***************************************************************************)
(* Ontology lookups (data_models.py)                                       *)
(***************************************************************************)
\* Ontology.get_entity: the first entity with the id, in a list of 0 or 1
GetEntity(ont, entity_id) ==
  LET hits == {i \in 1..Len(ont.entities) : ont.entities[i].id = entity_id}
  IN  IF hits = {} THEN << >>
      ELSE << ont.entities[CHOOSE i \in hits : \A k \in hits : i <= k] >>

\* the entity a relationship leads to from entity_id, as get_related_entities
\* resolves it: a list of 0 or 1
FarEntity(ont, entity_id, rel) ==
  IF rel.source_id = entity_id
    THEN GetEntity(ont, rel.target_id)
  ELSE IF rel.bidirectional /\ rel.target_id = entity_id
    THEN GetEntity(ont, rel.source_id)
  ELSE << >>

\* Ontology.get_related_entities: the list of [entity, relationship] pairs,
\* in the order of ont.relationships
GetRelatedEntities(ont, entity_id) ==
  LET hits == SelectSeq(ont.relationships,
                        LAMBDA rel : Len(FarEntity(ont, entity_id, rel)) > 0)
  IN  [i \in 1..Len(hits) |->
         [entity |-> FarEntity(ont, entity_id, hits[i])[1],
          relationship |-> hits[i]]]

(***************************************************************************)
(* core/taxonomy_builder.py                                                *)
(***************************************************************************)
MaxCategoryNodes == 15
MaxSubcategories == 5
MaxSiblingLinks == 3
MaxRelatedLinks == 3
MaxInternalLinks == 10

TaxonomyNode(id, name, parent_id, entity_ids, level) ==
  [id |-> id, name |-> name, parent_id |-> parent_id,
   entity_ids |-> entity_ids, level |-> level, facets |-> << >>,
   internal_links_to |-> << >>]

\* _generate_node_id: "tax_", slug and md5 suffix of name.lower().strip()
GenerateNodeId(name) == << "tax_" >> \o Strip(Lower(name))

\* _create_root_node
CreateRootNode(nodes, niche) ==
  DictSet(nodes, TaxonomyNode(GenerateNodeId(niche), niche, None, << >>, 0))

\* a.semantic_centrality < b.semantic_centrality
CentralityLess(a, b) ==
  a.semantic_centrality.num * b.semantic_centrality.den
    < b.semantic_centrality.num * a.semantic_centrality.den

\* list.sort(key=semantic_centrality, reverse=True): stable, highest first
SortByCentrality(es) ==
  LET \* the number of elements that the sort puts in front of element i
      Before(i) ==
        Cardinality({j \in 1..Len(es) :
                       \/ CentralityLess(es[i], es[j])
                       \/ (j < i /\ ~CentralityLess(es[j], es[i]))})
  IN  [p \in 1..Len(es) |->
         es[CHOOSE i \in 1..Len(es) : Before(i) = p - 1]]

\* the body of the loop of _create_category_nodes
AddCategoryNode(nodes, entity, root_id) ==
  DictSet(nodes,
          TaxonomyNode(GenerateNodeId(entity.name), entity.name, root_id,
                       << entity.id >>, 1))

\* the loop of _create_category_nodes, over core_entities[lo..hi]
RECURSIVE AddCategoryNodes(_, _, _, _, _)
AddCategoryNodes(nodes, core_entities, root_id, lo, hi) ==
  IF lo > hi THEN nodes
  ELSE IF lo = hi THEN AddCategoryNode(nodes, core_entities[lo], root_id)
  ELSE LET mid == (lo + hi) \div 2
       IN  CHOOSE after \in
             {AddCategoryNodes(first, core_entities, root_id, mid + 1, hi) :
                first \in {AddCategoryNodes(nodes, core_entities, root_id, lo, mid)}} : TRUE

\* _create_category_nodes without the slice of the sorted core entities
CreateCategoryNodesUncapped(nodes, ont) ==
  LET core_entities ==
        SortByCentrality(SelectSeq(ont.entities, LAMBDA e : e.type = "core"))
      root_id == nodes[1].id
  IN  AddCategoryNodes(nodes, core_entities, root_id, 1, Len(core_entities))

\* _create_category_nodes
CreateCategoryNodes(nodes, ont) ==
  LET core_entities ==
        SortByCentrality(SelectSeq(ont.entities, LAMBDA e : e.type = "core"))
      root_id == nodes[1].id
      first == Prefix(core_entities, MaxCategoryNodes)
  IN  AddCategoryNodes(nodes, first, root_id, 1, Len(first))

\* _find_node_for_entity: the first node that lists the entity, in a list
\* of 0 or 1
FindNodeForEntity(nodes, entity_id) ==
  LET hits == {i \in 1..Len(nodes) :
                 \E k \in 1..Len(nodes[i].entity_ids) :
                   nodes[i].entity_ids[k] = entity_id}
  IN  IF hits = {} THEN << >>
      ELSE << nodes[CHOOSE i \in hits : \A k \in hits : i <= k] >>

\* the body of the inner loop with no look-up of an existing node, and the
\* node keyed by its path below the category
AddSubcategoryByPath(nodes, cat_node, related_entity) ==
  IF related_entity.type = "competitor" THEN nodes
  ELSE DictSet(nodes,
               TaxonomyNode(GenerateNodeId(cat_node.name \o << "/" >>
                                             \o related_entity.name),
                            related_entity.name, cat_node.id,
                            << related_entity.id >>, 2))

\* the body of the inner loop of _create_subcategory_nodes
AddSubcategory(nodes, cat_node, related_entity) ==
  IF \/ related_entity.type = "competitor"
     \/ Len(FindNodeForEntity(nodes, related_entity.id)) > 0
    THEN nodes
    ELSE DictSet(nodes,
                 TaxonomyNode(GenerateNodeId(related_entity.name),
                              related_entity.name, cat_node.id,
                              << related_entity.id >>, 2))

\* the body of the inner loop, for one [entity, relationship] pair
AddRelatedSubcategory(nodes, cat_node, pair) ==
  AddSubcategory(nodes, cat_node, pair.entity)

\* the inner loop of _create_subcategory_nodes, over related[lo..hi]
RECURSIVE AddSubcategories(_, _, _, _, _)
AddSubcategories(nodes, cat_node, related, lo, hi) ==
  IF lo > hi THEN nodes
  ELSE IF lo = hi THEN AddRelatedSubcategory(nodes, cat_node, related[lo])
  ELSE LET mid == (lo + hi) \div 2
       IN  CHOOSE after \in
             {AddSubcategories(first, cat_node, related, mid + 1, hi) :
                first \in {AddSubcategories(nodes, cat_node, related, lo, mid)}} : TRUE

\* the body of the outer loop of _create_subcategory_nodes
SubcategoriesOf(nodes, cat_node, ont) ==
  IF Len(cat_node.entity_ids) = 0 THEN nodes
  ELSE LET related ==
             Prefix(GetRelatedEntities(ont, cat_node.entity_ids[1]),
                    MaxSubcategories)
       IN  AddSubcategories(nodes, cat_node, related, 1, Len(related))

\* the outer loop of _create_subcategory_nodes, over
\* category_nodes[lo..hi]
RECURSIVE SubcategoriesFor(_, _, _, _, _)
SubcategoriesFor(nodes, category_nodes, ont, lo, hi) ==
  IF lo > hi THEN nodes
  ELSE IF lo = hi THEN SubcategoriesOf(nodes, category_nodes[lo], ont)
  ELSE LET mid == (lo + hi) \div 2
       IN  CHOOSE after \in
             {SubcategoriesFor(first, category_nodes, ont, mid + 1, hi) :
                first \in {SubcategoriesFor(nodes, category_nodes, ont, lo, mid)}} : TRUE

\* _create_subcategory_nodes
CreateSubcategoryNodes(nodes, ont) ==
  LET category_nodes == SelectSeq(nodes, LAMBDA n : n.level = 1)
  IN  SubcategoriesFor(nodes, category_nodes, ont, 1, Len(category_nodes))

\* the facet vocabularies of _generate_facets
GenerateFacetDefinitions(ont) ==
  LET with_categories ==
        {i \in 1..Len(ont.entities) :
           "categories" \in DOMAIN ont.entities[i].attributes}
      fixed ==
        [intent |-> {"learn", "compare", "implement", "troubleshoot",
                     "purchase"},
         audience |-> {"beginners", "intermediate", "advanced",
                       "decision-makers"},
         content_type |-> {"guides", "tutorials", "comparisons", "reviews",
                           "case-studies", "tools"}]
  IN  IF with_categories = {} THEN fixed
      ELSE [intent |-> fixed.intent, audience |-> fixed.audience,
            content_type |-> fixed.content_type,
            category |->
              UNION {Range(ont.entities[i].attributes.categories) :
                       i \in with_categories}]

\* the facets _generate_facets assigns to the nodes
AssignFacets(nodes) ==
  [i \in 1..Len(nodes) |->
     IF nodes[i].level = 0 THEN nodes[i]
     ELSE IF nodes[i].level = 1
       THEN [nodes[i] EXCEPT !.facets = << "guides", "tutorials" >>]
       ELSE [nodes[i] EXCEPT !.facets = << "tutorials" >>]]

\* list(dict.fromkeys(links))
Dedupe(s) ==
  AtIndices(s, {i \in 1..Len(s) : \A j \in 1..(i - 1) : s[j] # s[i]})

Ids(s) == [i \in 1..Len(s) |-> s[i].id]

\* the related-node loop of _map_internal_links for one entity
\* the body of the related-node loop of _map_internal_links
AppendRelatedNode(links, nodes, pair) ==
  LET related_node == FindNodeForEntity(nodes, pair.entity.id)
  IN  IF Len(related_node) > 0 /\ related_node[1].id \notin Range(links)
        THEN Append(links, related_node[1].id)
        ELSE links

\* the related-node loop of _map_internal_links, over related[lo..hi]
RECURSIVE AppendRelatedNodes(_, _, _, _, _)
AppendRelatedNodes(links, nodes, related, lo, hi) ==
  IF lo > hi THEN links
  ELSE IF lo = hi THEN AppendRelatedNode(links, nodes, related[lo])
  ELSE LET mid == (lo + hi) \div 2
       IN  CHOOSE after \in
             {AppendRelatedNodes(first, nodes, related, mid + 1, hi) :
                first \in {AppendRelatedNodes(links, nodes, related, lo, mid)}} : TRUE

\* the related nodes of one entity of a node
LinksViaEntity(links, nodes, entity_id, ont) ==
  LET related == Prefix(GetRelatedEntities(ont, entity_id), MaxRelatedLinks)
  IN  AppendRelatedNodes(links, nodes, related, 1, Len(related))

\* the entity loop of _map_internal_links, over entity_ids[lo..hi]
RECURSIVE LinksViaEntities(_, _, _, _, _, _)
LinksViaEntities(links, nodes, entity_ids, ont, lo, hi) ==
  IF lo > hi THEN links
  ELSE IF lo = hi THEN LinksViaEntity(links, nodes, entity_ids[lo], ont)
  ELSE LET mid == (lo + hi) \div 2
       IN  CHOOSE after \in
             {LinksViaEntities(first, nodes, entity_ids, ont, mid + 1, hi) :
                first \in {LinksViaEntities(links, nodes, entity_ids, ont, lo, mid)}} : TRUE

\* the internal_links_to that _map_internal_links computes for a node
NodeLinks(node, nodes, ont) ==
  LET parent == IF node.parent_id # None THEN << node.parent_id >> ELSE << >>
      siblings ==
        Ids(SelectSeq(nodes, LAMBDA n : n.parent_id = node.parent_id
                                         /\ n.id # node.id))
      children == Ids(SelectSeq(nodes, LAMBDA n : n.parent_id = node.id))
      links ==
        LinksViaEntities(parent \o Prefix(siblings, MaxSiblingLinks) \o children,
                         nodes, node.entity_ids, ont, 1, Len(node.entity_ids))
  IN  Prefix(Dedupe(links), MaxInternalLinks)

\* _map_internal_links
MapInternalLinks(nodes, ont) ==
  [i \in 1..Len(nodes) |->
     [nodes[i] EXCEPT !.internal_links_to = NodeLinks(nodes[i], nodes, ont)]]

\* TaxonomyBuilder(ontology, primary_niche).build()
BuildTaxonomy(ont, niche) ==
  LET root == CreateRootNode(<< >>, niche)
      categories == CreateCategoryNodes(root, ont)
      subcategories == CreateSubcategoryNodes(categories, ont)
      with_facets == AssignFacets(subcategories)
  IN  [brand_name |-> ont.brand_name,
       nodes |-> MapInternalLinks(with_facets, ont),
       facet_definitions |-> GenerateFacetDefinitions(ont)]


\* next((n for n in nodes if n.id == node_id), None) and self.nodes.get:
\* << >> for None, << node >> for a node
NodeWithId(nodes, node_id) ==
  LET hits == {i \in 1..Len(nodes) : nodes[i].id = node_id}
  IN  IF hits = {} THEN << >>
      ELSE << nodes[CHOOSE i \in hits : \A k \in hits : i <= k] >>

\* the while loop of get_node_path and of get_navigation_paths from the node
\* current, run for at most steps iterations. The loop has no state but
\* current, so a walk of more than Len(nodes) iterations has met a node
\* twice and repeats for ever: terminates is FALSE for it.
RECURSIVE WalkToRoot(_, _, _)
WalkToRoot(nodes, current, steps) ==
  IF current = << >> THEN [terminates |-> TRUE, path |-> << >>]
  ELSE IF steps = 0 THEN [terminates |-> FALSE, path |-> << >>]
  ELSE CHOOSE walk \in
         {[terminates |-> above.terminates, path |-> above.path \o current] :
            above \in {WalkToRoot(nodes, NodeWithId(nodes, current[1].parent_id),
                                  steps - 1)}} : TRUE

\* Taxonomy.get_node_path
GetNodePath(tax, node_id) ==
  WalkToRoot(tax.nodes, NodeWithId(tax.nodes, node_id), Len(tax.nodes) + 1)

\* the primary path of TaxonomyBuilder.get_navigation_paths: node names
GetNavigationPath(nodes, target_node_id) ==
  LET walk == WalkToRoot(nodes, NodeWithId(nodes, target_node_id), Len(nodes) + 1)
  IN  [terminates |-> walk.terminates,
       path |-> [i \in 1..Len(walk.path) |-> walk.path[i].name]]
(***************************************************************************)
(* config/templates.py QUERY_FANOUT_PATTERNS and core/query_mapper.py      *)
(***************************************************************************)
\* a template is the text before and the text after its {entity} placeholder
T(pre, post) == [pre |-> pre, post |-> post]

QUERY_FANOUT_PATTERNS ==
  << [name |-> "definitional", intent |-> "informational", priority |-> 1,
      patterns |-> << T(<<"w", "h", "a", "t", " ", "i", "s", " ">>, <<>>), T(<<>>, <<" ", "m", "e", "a", "n", "i", "n", "g">>),
                      T(<<>>, <<" ", "d", "e", "f", "i", "n", "i", "t", "i", "o", "n">>), T(<<>>, <<" ", "e", "x", "p", "l", "a", "i", "n", "e", "d">>) >>],
     [name |-> "how_to", intent |-> "informational", priority |-> 1,
      patterns |-> << T(<<"h", "o", "w", " ", "t", "o", " ">>, <<>>), T(<<>>, <<" ", "t", "u", "t", "o", "r", "i", "a", "l">>),
                      T(<<>>, <<" ", "g", "u", "i", "d", "e">>), T(<<"l", "e", "a", "r", "n", " ">>, <<>>) >>],
     [name |-> "comparison", intent |-> "commercial", priority |-> 2,
      patterns |-> << T(<<>>, <<" ", "v", "s">>), T(<<>>, <<" ", "a", "l", "t", "e", "r", "n", "a", "t", "i", "v", "e", "s">>),
                      T(<<>>, <<" ", "c", "o", "m", "p", "a", "r", "i", "s", "o", "n">>), T(<<"b", "e", "s", "t", " ">>, <<>>) >>],
     [name |-> "problems", intent |-> "informational", priority |-> 2,
      patterns |-> << T(<<>>, <<" ", "p", "r", "o", "b", "l", "e", "m", "s">>), T(<<>>, <<" ", "i", "s", "s", "u", "e", "s">>),
                      T(<<>>, <<" ", "n", "o", "t", " ", "w", "o", "r", "k", "i", "n", "g">>), T(<<>>, <<" ", "e", "r", "r", "o", "r", "s">>) >>],
     [name |-> "benefits", intent |-> "commercial", priority |-> 2,
      patterns |-> << T(<<>>, <<" ", "b", "e", "n", "e", "f", "i", "t", "s">>), T(<<"w", "h", "y", " ", "u", "s", "e", " ">>, <<>>),
                      T(<<>>, <<" ", "a", "d", "v", "a", "n", "t", "a", "g", "e", "s">>), T(<<>>, <<" ", "p", "r", "o", "s", " ", "c", "o", "n", "s">>) >>],
     [name |-> "examples", intent |-> "informational", priority |-> 2,
      patterns |-> << T(<<>>, <<" ", "e", "x", "a", "m", "p", "l", "e", "s">>), T(<<>>, <<" ", "u", "s", "e", " ", "c", "a", "s", "e", "s">>),
                      T(<<>>, <<" ", "t", "e", "m", "p", "l", "a", "t", "e", "s">>), T(<<>>, <<" ", "s", "a", "m", "p", "l", "e", "s">>) >>],
     [name |-> "pricing", intent |-> "transactional", priority |-> 3,
      patterns |-> << T(<<>>, <<" ", "p", "r", "i", "c", "i", "n", "g">>), T(<<>>, <<" ", "c", "o", "s", "t">>),
                      T(<<>>, <<" ", "f", "r", "e", "e">>), T(<<"i", "s", " ">>, <<" ", "f", "r", "e", "e">>) >>],
     [name |-> "reviews", intent |-> "commercial", priority |-> 2,
      patterns |-> << T(<<>>, <<" ", "r", "e", "v", "i", "e", "w">>), T(<<>>, <<" ", "r", "e", "v", "i", "e", "w", "s">>),
                      T(<<"i", "s", " ">>, <<" ", "g", "o", "o", "d">>), T(<<>>, <<" ", "w", "o", "r", "t", "h", " ", "i", "t">>) >>],
     [name |-> "integration", intent |-> "informational", priority |-> 3,
      patterns |-> << T(<<>>, <<" ", "i", "n", "t", "e", "g", "r", "a", "t", "i", "o", "n">>), T(<<>>, <<" ", "w", "i", "t", "h">>),
                      T(<<>>, <<" ", "a", "p", "i">>), T(<<>>, <<" ", "p", "l", "u", "g", "i", "n", "s">>) >>],
     [name |-> "advanced", intent |-> "informational", priority |-> 3,
      patterns |-> << T(<<"a", "d", "v", "a", "n", "c", "e", "d", " ">>, <<>>), T(<<>>, <<" ", "b", "e", "s", "t", " ", "p", "r", "a", "c", "t", "i", "c", "e", "s">>),
                      T(<<>>, <<" ", "t", "i", "p", "s">>), T(<<>>, <<" ", "o", "p", "t", "i", "m", "i", "z", "a", "t", "i", "o", "n">>) >>] >>

MaxPatternsPerFamily == 3
MaxAliasQueries == 5

Query(query_text, intent, entity_ids, priority, serp_features, fanout_pattern) ==
  [query_text |-> query_text, intent |-> intent, entity_ids |-> entity_ids,
   estimated_volume |-> 0, priority |-> priority,
   serp_features |-> serp_features, fanout_pattern |-> fanout_pattern]

\* priority_map.get(priority_val, ContentPriority.MEDIUM)
PriorityOf(priority_val) ==
  CASE priority_val = 1 -> "critical"
    [] priority_val = 2 -> "high"
    [] OTHER -> "medium"

pattern_features ==
  [definitional |-> << "featured_snippet", "knowledge_panel" >>,
   how_to |-> << "featured_snippet", "how_to_rich_result", "video_carousel" >>,
   comparison |-> << "featured_snippet", "table_snippet" >>,
   problems |-> << "paa", "featured_snippet" >>,
   benefits |-> << "featured_snippet", "paa" >>,
   examples |-> << "featured_snippet", "image_pack" >>,
   pricing |-> << "product_results", "shopping_ads" >>,
   reviews |-> << "review_snippet", "star_rating" >>,
   integration |-> << "paa", "featured_snippet" >>,
   advanced |-> << "featured_snippet", "paa" >>]

\* _predict_serp_features
PredictSerpFeatures(pattern_name, intent) ==
  LET by_pattern ==
        IF pattern_name \in DOMAIN pattern_features
          THEN pattern_features[pattern_name] ELSE << >>
      features ==
        IF intent = "commercial"
          THEN IF "shopping_ads" \notin Range(by_pattern)
                 THEN Append(by_pattern, "paa") ELSE by_pattern
        ELSE IF intent = "transactional"
          THEN Append(by_pattern, "site_links")
        ELSE by_pattern
  IN  Dedupe(features)

\* the queries of one pattern family in _generate_fanout_queries
FamilyQueries(family, entity) ==
  LET entity_name == Lower(entity.name)
      patterns == Prefix(family.patterns, MaxPatternsPerFamily)
  IN  [i \in 1..Len(patterns) |->
         Query(patterns[i].pre \o entity_name \o patterns[i].post,
               family.intent, << entity.id >>, PriorityOf(family.priority),
               PredictSerpFeatures(family.name, family.intent),
               family.name)]

\* _generate_fanout_queries
GenerateFanoutQueries(entity) ==
  Concat([f \in 1..Len(QUERY_FANOUT_PATTERNS) |->
            FamilyQueries(QUERY_FANOUT_PATTERNS[f], entity)])

\* _generate_alias_queries
GenerateAliasQueries(alias, entity_id) ==
  LET alias_lower == Lower(alias)
  IN  << Query(<<"w", "h", "a", "t", " ", "i", "s", " ">> \o alias_lower, "informational", << entity_id >>,
               "medium", << >>, "alias_definitional"),
         Query(<<"h", "o", "w", " ", "t", "o", " ", "u", "s", "e", " ">> \o alias_lower, "informational", << entity_id >>,
               "medium", << >>, "alias_howto") >>

QueryCluster(id, primary_entity_id, primary_entity_name) ==
  [id |-> id, primary_entity_id |-> primary_entity_id,
   primary_entity_name |-> primary_entity_name, queries |-> << >>,
   intent_distribution |-> << >>, total_estimated_volume |-> 0]

\* add_query with the count of the query's intent set to 1 every time
ClusterAddQueryNoCount(cluster, query) ==
  [cluster EXCEPT
     !.queries = Append(@, query),
     !.intent_distribution =
        [k \in DOMAIN @ \cup {query.intent} |->
           IF k = query.intent THEN 1 ELSE @[k]],
     !.total_estimated_volume =
        IF query.estimated_volume # 0 THEN @ + query.estimated_volume ELSE @]

\* QueryCluster.add_query; estimated_volume None is 0, which is as falsy
ClusterAddQuery(cluster, query) ==
  LET intent_key == query.intent
      dist == cluster.intent_distribution
  IN  [cluster EXCEPT
         !.queries = Append(@, query),
         !.intent_distribution =
            IF intent_key \in DOMAIN dist
              THEN [dist EXCEPT ![intent_key] = @ + 1]
              ELSE [k \in DOMAIN dist \cup {intent_key} |->
                      IF k = intent_key THEN 1 ELSE dist[k]],
         !.total_estimated_volume =
            IF query.estimated_volume # 0
              THEN @ + query.estimated_volume ELSE @]

\* for query in queries[lo..hi]: cluster.add_query(query)
RECURSIVE AddAllQueries(_, _, _, _)
AddAllQueries(cluster, queries, lo, hi) ==
  IF lo > hi THEN cluster
  ELSE IF lo = hi THEN ClusterAddQuery(cluster, queries[lo])
  ELSE LET mid == (lo + hi) \div 2
       IN  CHOOSE after \in
             {AddAllQueries(first, queries, mid + 1, hi) :
                first \in {AddAllQueries(cluster, queries, lo, mid)}} : TRUE

\* _create_query_cluster
CreateQueryCluster(entity) ==
  LET aliases == Prefix(entity.aliases, MaxAliasQueries)
      queries ==
        GenerateFanoutQueries(entity)
          \o Concat([i \in 1..Len(aliases) |->
                       GenerateAliasQueries(aliases[i], entity.id)])
  IN  AddAllQueries(QueryCluster(<< "qc_" >> \o entity.id, entity.id,
                                 entity.name),
                    queries, 1, Len(queries))

\* the body of the loops of map_all_entities
AddCluster(clusters, entity) == DictSet(clusters, CreateQueryCluster(entity))

\* a loop of map_all_entities, over entities[lo..hi]
RECURSIVE AddClusters(_, _, _, _)
AddClusters(clusters, entities, lo, hi) ==
  IF lo > hi THEN clusters
  ELSE IF lo = hi THEN AddCluster(clusters, entities[lo])
  ELSE LET mid == (lo + hi) \div 2
       IN  CHOOSE after \in
             {AddClusters(first, entities, mid + 1, hi) :
                first \in {AddClusters(clusters, entities, lo, mid)}} : TRUE

\* map_all_entities
MapAllEntities(ont) ==
  LET core_entities == SelectSeq(ont.entities, LAMBDA e : e.type = "core")
      supporting ==
        SelectSeq(ont.entities,
                  LAMBDA e : /\ e.type = "supporting"
                             /\ 2 * e.semantic_centrality.num
                                  > e.semantic_centrality.den)
  IN  AddClusters(AddClusters(<< >>, core_entities, 1, Len(core_entities)),
                  supporting, 1, Len(supporting))

(***************************************************************************)
(* core/hub_designer.py                                                    *)
(***************************************************************************)
MaxPillarQueries == 5
MaxPageQueries == 5
MinPatternQueries == 2
MaxClusterPages == 10
MaxSupportingPages == 5
MaxClusterSiblingLinks == 2
ExpectedLinksPerPage == 3

HubPage(id, page_type, target_queries, target_intents, entity_ids,
        recommended_format, priority) ==
  [id |-> id, page_type |-> page_type, target_queries |-> target_queries,
   target_intents |-> target_intents, entity_ids |-> entity_ids,
   recommended_format |-> recommended_format,
   internal_links_to |-> << >>, internal_links_from |-> << >>,
   status |-> "planned", priority |-> priority]

\* self.query_map.get(entity_id): a dict comprehension keeps the last
\* cluster of a key; a list of 0 or 1
QueryMapGet(clusters, entity_id) ==
  LET hits == {i \in 1..Len(clusters) :
                 clusters[i].primary_entity_id = entity_id}
  IN  IF hits = {} THEN << >>
      ELSE << clusters[CHOOSE i \in hits : \A k \in hits : k <= i] >>

Texts(queries) == [i \in 1..Len(queries) |-> queries[i].query_text]

\* _create_pillar_page
CreatePillarPage(entity, hub_id, clusters) ==
  LET query_cluster == QueryMapGet(clusters, entity.id)
      high_priority ==
        IF Len(query_cluster) = 0 THEN << >>
        ELSE SelectSeq(query_cluster[1].queries,
                       LAMBDA q : q.priority \in {"critical", "high"})
  IN  HubPage(hub_id \o << "_pillar" >>, "pillar",
              Texts(Prefix(high_priority, MaxPillarQueries)),
              << "informational" >>, << entity.id >>, "long_form_guide",
              "critical")

\* _get_pattern_config: the format and the intents of a pattern
PatternConfig(pattern) ==
  CASE pattern = "definitional" ->
         [format |-> "glossary_definition", intents |-> << "informational" >>]
    [] pattern = "how_to" ->
         [format |-> "how_to_tutorial", intents |-> << "informational" >>]
    [] pattern = "comparison" ->
         [format |-> "comparison_table", intents |-> << "commercial" >>]
    [] pattern = "problems" ->
         [format |-> "faq_page", intents |-> << "informational" >>]
    [] pattern = "benefits" ->
         [format |-> "listicle", intents |-> << "commercial" >>]
    [] pattern = "examples" ->
         [format |-> "case_study", intents |-> << "informational" >>]
    [] pattern = "pricing" ->
         [format |-> "comparison_table",
          intents |-> << "transactional", "commercial" >>]
    [] pattern = "reviews" ->
         [format |-> "product_review", intents |-> << "commercial" >>]
    [] pattern = "integration" ->
         [format |-> "how_to_tutorial", intents |-> << "informational" >>]
    [] pattern = "advanced" ->
         [format |-> "long_form_guide", intents |-> << "informational" >>]
    [] OTHER ->
         [format |-> "long_form_guide", intents |-> << "informational" >>]

\* query.fanout_pattern or "general"
PatternKey(query) ==
  IF query.fanout_pattern = "" THEN "general" ELSE query.fanout_pattern

\* the keys of by_pattern, in the order of their first query
PatternsOf(queries) == Dedupe([i \in 1..Len(queries) |-> PatternKey(queries[i])])

\* the cluster page of one pattern, in a list of 0 or 1
ClusterPageFor(pattern, cluster_queries, entity, hub_id) ==
  LET queries == SelectSeq(cluster_queries, LAMBDA q : PatternKey(q) = pattern)
      has_critical == \E i \in 1..Len(queries) : queries[i].priority = "critical"
      has_high == \E i \in 1..Len(queries) : queries[i].priority = "high"
      priority ==
        IF has_critical THEN "critical"
        ELSE IF has_high THEN "high" ELSE "medium"
      cfg == PatternConfig(pattern)
  IN  IF Len(queries) < MinPatternQueries THEN << >>
      ELSE << HubPage(hub_id \o << "_cluster_", pattern >>, "cluster",
                      Texts(Prefix(queries, MaxPageQueries)), cfg.intents,
                      << entity.id >>, cfg.format, priority) >>

\* _create_cluster_pages
CreateClusterPages(entity, query_cluster, hub_id) ==
  LET patterns == PatternsOf(query_cluster.queries)
      pages ==
        Concat([i \in 1..Len(patterns) |->
                  ClusterPageFor(patterns[i], query_cluster.queries, entity,
                                 hub_id)])
  IN  Prefix(pages, MaxClusterPages)

\* _create_supporting_pages
CreateSupportingPages(entity, hub_id, ont) ==
  LET related ==
        Prefix(GetRelatedEntities(ont, entity.id), MaxSupportingPages)
  IN  Concat([i \in 1..Len(related) |->
                IF related[i].entity.type = "competitor" THEN << >>
                ELSE << HubPage(hub_id \o << "_support_" >>
                                  \o related[i].entity.id,
                                "supporting", << >>, << "informational" >>,
                                << entity.id, related[i].entity.id >>,
                                "long_form_guide", "low") >>])

\* ContentHub.all_pages
AllPages(hub) ==
  (IF hub.pillar_page = None THEN << >> ELSE << hub.pillar_page >>)
    \o hub.cluster_pages \o hub.supporting_pages

\* sum(list)
SumOf(s) ==
  LET RECURSIVE SumRange(_, _)
      SumRange(lo, hi) ==
        IF lo > hi THEN 0
        ELSE IF lo = hi THEN s[lo]
        ELSE LET mid == (lo + hi) \div 2
             IN  SumRange(lo, mid) + SumRange(mid + 1, hi)
  IN  SumRange(1, Len(s))

\* ContentHub.calculate_link_count: the count it stores
LinkCount(hub) ==
  LET pages == AllPages(hub)
  IN  SumOf([i \in 1..Len(pages) |-> Len(pages[i].internal_links_to)])

\* _map_internal_links(hub)
MapHubInternalLinks(hub) ==
  IF hub.pillar_page = None THEN hub
  ELSE
    LET pillar_id == hub.pillar_page.id
        cluster_ids == Ids(hub.cluster_pages)
        Linked(page) ==
          IF page.id = pillar_id
            THEN [page EXCEPT !.internal_links_to = cluster_ids,
                              !.internal_links_from = << >>]
          ELSE IF page.page_type = "cluster"
            THEN [page EXCEPT
                    !.internal_links_to =
                       << pillar_id >>
                         \o Prefix(SelectSeq(cluster_ids,
                                             LAMBDA id : id # page.id),
                                   MaxClusterSiblingLinks),
                    !.internal_links_from = << pillar_id >>]
          ELSE [page EXCEPT !.internal_links_to = << pillar_id >>,
                            !.internal_links_from = << >>]
    IN  [hub EXCEPT
           !.pillar_page = Linked(@),
           !.cluster_pages = [i \in 1..Len(@) |-> Linked(@[i])],
           !.supporting_pages = [i \in 1..Len(@) |-> Linked(@[i])]]

\* _design_hub
DesignHub(entity, ont, clusters) ==
  LET hub_id == << "hub_" >> \o entity.id
      query_cluster == QueryMapGet(clusters, entity.id)
      hub ==
        [id |-> hub_id, name |-> entity.name, primary_entity_id |-> entity.id,
         pillar_page |-> CreatePillarPage(entity, hub_id, clusters),
         cluster_pages |->
           IF Len(query_cluster) = 0 THEN << >>
           ELSE CreateClusterPages(entity, query_cluster[1], hub_id),
         supporting_pages |-> CreateSupportingPages(entity, hub_id, ont),
         internal_link_count |-> 0,
         coverage_score |-> [num |-> 0, den |-> 1]]
      linked == MapHubInternalLinks(hub)
  IN  [linked EXCEPT !.internal_link_count = LinkCount(linked)]

\* the body of the inner loop of _map_hub_links appending the id of the
\* other hub, not of its pillar page
AppendHubLinkToHub(links, pair, all_hubs) ==
  LET hits == {i \in 1..Len(all_hubs) :
                 all_hubs[i].primary_entity_id = pair.entity.id}
      other_hub == all_hubs[CHOOSE i \in hits : \A k \in hits : i <= k]
  IN  IF /\ hits # {}
         /\ other_hub.pillar_page # None
         /\ other_hub.id \notin Range(links)
        THEN Append(links, other_hub.id)
        ELSE links

\* the body of the inner loop of _map_hub_links
AppendHubLink(links, pair, all_hubs) ==
  LET hits == {i \in 1..Len(all_hubs) :
                 all_hubs[i].primary_entity_id = pair.entity.id}
      other_hub == all_hubs[CHOOSE i \in hits : \A k \in hits : i <= k]
  IN  IF /\ hits # {}
         /\ other_hub.pillar_page # None
         /\ other_hub.pillar_page.id \notin Range(links)
        THEN Append(links, other_hub.pillar_page.id)
        ELSE links

\* the inner loop of _map_hub_links, over related[lo..hi]
RECURSIVE AppendHubLinks(_, _, _, _, _)
AppendHubLinks(links, related, all_hubs, lo, hi) ==
  IF lo > hi THEN links
  ELSE IF lo = hi THEN AppendHubLink(links, related[lo], all_hubs)
  ELSE LET mid == (lo + hi) \div 2
       IN  CHOOSE after \in
             {AppendHubLinks(first, related, all_hubs, mid + 1, hi) :
                first \in {AppendHubLinks(links, related, all_hubs, lo, mid)}} : TRUE

\* _map_hub_links: a hub's iteration changes its own pillar page only, and
\* reads the ids of the other pillar pages only
MapHubLinks(all_hubs, ont) ==
  [i \in 1..Len(all_hubs) |->
     LET hub == all_hubs[i]
     IN  IF Len(GetEntity(ont, hub.primary_entity_id)) = 0
            \/ hub.pillar_page = None
           THEN hub
           ELSE LET related == GetRelatedEntities(ont, hub.primary_entity_id)
                IN  [hub EXCEPT !.pillar_page.internal_links_to =
                       AppendHubLinks(@, related, all_hubs, 1, Len(related))]]

Frac(n, d) == [num |-> n, den |-> d]

\* min(1.0, n / d)
FracCapped(n, d) == IF n >= d THEN Frac(1, 1) ELSE Frac(n, d)

FracAdd(a, b) == Frac(a.num * b.den + b.num * a.den, a.den * b.den)

RECURSIVE FracSum(_)
FracSum(s) == IF Len(s) = 0 THEN Frac(0, 1) ELSE FracAdd(s[1], FracSum(Tail(s)))

\* the sub-scores of _calculate_coverage, in the order they are appended
CoverageScores(hub, clusters) ==
  LET pages == AllPages(hub)
      query_cluster == QueryMapGet(clusters, hub.primary_entity_id)
      covered_queries ==
        SumOf([i \in 1..Len(pages) |-> Len(pages[i].target_queries)])
      covered_intents ==
        UNION {Range(pages[i].target_intents) : i \in 1..Len(pages)}
      query_coverage ==
        IF Len(query_cluster) = 0 THEN << >>
        ELSE << FracCapped(covered_queries,
                           Max(Len(query_cluster[1].queries), 1)) >>
      intent_coverage ==
        Frac(Cardinality(covered_intents), Cardinality(IntentType))
      link_coverage ==
        FracCapped(hub.internal_link_count,
                   Max(Len(pages) * ExpectedLinksPerPage, 1))
  IN  query_coverage \o << intent_coverage, link_coverage >>

\* _calculate_coverage returning sum(scores), not divided by len(scores)
CalculateCoverageSum(hub, clusters) == FracSum(CoverageScores(hub, clusters))

\* _calculate_coverage: sum(scores) / len(scores)
CalculateCoverage(hub, clusters) ==
  LET scores == CoverageScores(hub, clusters)
      total == FracSum(scores)
  IN  Frac(total.num, total.den * Len(scores))

\* the hubs of the first loop of design_all_hubs
DesignedHubs(ont, tax, clusters) ==
  Concat([i \in 1..Len(tax.nodes) |->
            LET node == tax.nodes[i]
            IN  IF node.level # 1 \/ Len(node.entity_ids) = 0 THEN << >>
                ELSE LET entity == GetEntity(ont, node.entity_ids[1])
                     IN  IF Len(entity) = 0 THEN << >>
                         ELSE << DesignHub(entity[1], ont, clusters) >>])

\* HubDesigner(ontology, taxonomy, query_clusters).design_all_hubs()
DesignAllHubs(ont, tax, clusters) ==
  LET linked == MapHubLinks(DesignedHubs(ont, tax, clusters), ont)
  IN  [i \in 1..Len(linked) |->
         [linked[i] EXCEPT !.coverage_score =
            CalculateCoverage(linked[i], clusters)]]

(***************************************************************************)
(* InputValidator                                                          *)
(***************************************************************************)
MIN_ENTITY_LENGTH == 2
MAX_ENTITY_LENGTH == 100
MIN_ENTITIES == 1
MAX_ENTITIES == 50
MIN_BRAND_LENGTH == 1
MAX_BRAND_LENGTH == 100
MinNicheLength == 3
MaxNicheLength == 200

SITEMAP_EXTENSIONS == << <<".", "x", "m", "l">>, <<"s", "i", "t", "e", "m", "a", "p">>, <<"s", "i", "t", "e", "m", "a", "p", ".", "x", "m", "l">>, <<"s", "i", "t", "e", "m", "a", "p", "_", "i", "n", "d", "e", "x", ".", "x", "m", "l">> >>

\* ValidationError(field, message, severity): the message is left out,
\* index is the i of a field "name[i]" and 0 for a field without one
ValidationError(field, index, severity) ==
  [field |-> field, index |-> index, severity |-> severity]

Least(S) == CHOOSE x \in S : \A y \in S : x <= y

\* the position of the first c in s, 0 when there is none
Find(s, c) ==
  IF HasChar(s, c) THEN Least({i \in 1..Len(s) : s[i] = c}) ELSE 0

Digits == {"0", "1", "2", "3", "4", "5", "6", "7", "8", "9"}

\* urlparse(url).scheme: the text before the first colon, lower-cased, when
\* it starts with a letter and has only letters, digits, "+", "-" and "."
UrlScheme(url) ==
  LET colon == Find(url, ":")
      head == SubSeq(url, 1, colon - 1)
  IN  IF /\ colon > 1
         /\ IsUpper(head[1]) \/ IsLowerLetter(head[1])
         /\ \A i \in 1..Len(head) :
              \/ IsUpper(head[i]) \/ IsLowerLetter(head[i])
              \/ head[i] \in Digits \cup {"+", "-", "."}
        THEN Lower(head)
        ELSE << >>

\* urlparse(url).netloc: what follows "//" up to the next "/", "?" or "#"
UrlNetloc(url) ==
  LET scheme == UrlScheme(url)
      rest == IF scheme = << >> THEN url
              ELSE SubSeq(url, Len(scheme) + 2, Len(url))
      after == SubSeq(rest, 3, Len(rest))
      ends == {i \in 1..Len(after) : after[i] \in {"/", "?", "#"}}
  IN  IF StartsWith(rest, <<"/", "/">>)
        THEN IF ends = {} THEN after ELSE SubSeq(after, 1, Least(ends) - 1)
        ELSE << >>

\* is_valid_url; urlparse drops leading whitespace
IsValidUrl(url) ==
  /\ url # None
  /\ Len(url) > 0
  /\ UrlScheme(LStrip(url)) \in {<<"h", "t", "t", "p">>, <<"h", "t", "t", "p", "s">>}
  /\ UrlNetloc(LStrip(url)) # << >>

\* validate_brand_name
ValidateBrandName(brand_name) ==
  LET stripped == Strip(brand_name)
      too_short ==
        IF Len(stripped) < MIN_BRAND_LENGTH
          THEN << ValidationError("brand_name", 0, "error") >> ELSE << >>
      too_long ==
        IF Len(stripped) > MAX_BRAND_LENGTH
          THEN << ValidationError("brand_name", 0, "error") >> ELSE << >>
      characters ==
        IF \E i \in 1..Len(stripped) : stripped[i] \in {"<", ">", "\"", "'", "&"}
          THEN << ValidationError("brand_name", 0, "warning") >> ELSE << >>
  IN  IF brand_name = None \/ Len(brand_name) = 0
        THEN << ValidationError("brand_name", 0, "error") >>
        ELSE too_short \o too_long \o characters

\* validate_niche
ValidateNiche(niche) ==
  LET stripped == Strip(niche)
      too_short ==
        IF Len(stripped) < MinNicheLength
          THEN << ValidationError("primary_niche", 0, "error") >> ELSE << >>
      too_long ==
        IF Len(stripped) > MaxNicheLength
          THEN << ValidationError("primary_niche", 0, "warning") >> ELSE << >>
  IN  IF niche = None \/ Len(niche) = 0
        THEN << ValidationError("primary_niche", 0, "error") >>
        ELSE too_short \o too_long

\* validate_sitemap_url
ValidateSitemapUrl(url) ==
  LET stripped == Strip(url)
      is_sitemap ==
        \E i \in 1..Len(SITEMAP_EXTENSIONS) :
          Contains(Lower(stripped), SITEMAP_EXTENSIONS[i])
  IN  IF url = None \/ Len(url) = 0
        THEN << ValidationError("sitemap_url", 0, "error") >>
      ELSE IF ~IsValidUrl(stripped)
        THEN << ValidationError("sitemap_url", 0, "error") >>
      ELSE IF ~is_sitemap
        THEN << ValidationError("sitemap_url", 0, "warning") >>
      ELSE << >>

\* the findings of validate_seed_entities for the entity at index i - 1
ValidateSeedEntity(entities, i) ==
  LET entity == Strip(entities[i])
      too_short ==
        IF Len(entity) < MIN_ENTITY_LENGTH
          THEN << ValidationError("seed_entities", i - 1, "error") >>
          ELSE << >>
      too_long ==
        IF Len(entity) > MAX_ENTITY_LENGTH
          THEN << ValidationError("seed_entities", i - 1, "error") >>
          ELSE << >>
  IN  IF Len(entity) = 0
        THEN << ValidationError("seed_entities", i - 1, "error") >>
        ELSE too_short \o too_long

\* validate_seed_entities
ValidateSeedEntities(entities) ==
  LET too_few ==
        IF Len(entities) < MIN_ENTITIES
          THEN << ValidationError("seed_entities", 0, "error") >> ELSE << >>
      too_many ==
        IF Len(entities) > MAX_ENTITIES
          THEN << ValidationError("seed_entities", 0, "warning") >>
          ELSE << >>
      each ==
        Concat([i \in 1..Len(entities) |-> ValidateSeedEntity(entities, i)])
      kept == {i \in 1..Len(entities) : Len(entities[i]) > 0}
      duplicates ==
        IF Cardinality(kept)
             # Cardinality({Strip(Lower(entities[i])) : i \in kept})
          THEN << ValidationError("seed_entities", 0, "warning") >>
          ELSE << >>
  IN  IF Len(entities) = 0
        THEN << ValidationError("seed_entities", 0, "error") >>
        ELSE too_few \o too_many \o each \o duplicates

\* the competitor loop of validate_config
ValidateCompetitors(competitors) ==
  Concat([i \in 1..Len(competitors) |->
            IF /\ Len(Strip(competitors[i])) > 0
               /\ Len(Strip(competitors[i])) < MIN_ENTITY_LENGTH
              THEN << ValidationError("competitors", i - 1, "warning") >>
              ELSE << >>])

\* validate_config
ValidateConfig(cfg) ==
  LET goals ==
        IF cfg.business_goals = << >>
          THEN << ValidationError("business_goals", 0, "error") >>
          ELSE << >>
      has_sitemap == cfg.sitemap_url # None /\ IsValidUrl(cfg.sitemap_url)
      has_seeds == Len(cfg.seed_entities) > 0
      source ==
        IF cfg.source_mode = "sitemap"
          THEN ValidateSitemapUrl(cfg.sitemap_url)
        ELSE IF cfg.source_mode = "seed"
          THEN ValidateSeedEntities(cfg.seed_entities)
        ELSE IF ~has_sitemap /\ ~has_seeds
          THEN << ValidationError("source_mode", 0, "error") >>
        ELSE << >>
  IN  ValidateBrandName(cfg.brand_name)
        \o ValidateNiche(cfg.primary_niche)
        \o goals
        \o source
        \o ValidateCompetitors(cfg.competitors)

\* has_errors taking every finding, warnings too, for an error
HasErrorsAnySeverity(errors) ==
  \E i \in 1..Len(errors) : errors[i].severity \in {"error", "warning"}

\* has_errors
HasErrors(errors) ==
  \E i \in 1..Len(errors) : errors[i].severity = "error"

(***************************************************************************)
(* Inputs                                                                  *)
(***************************************************************************)
BrandNames == {<<"A", "c", "m", "e">>}

NicheNames == {<<"S", "a", "l", "e", "s", " ", "S", "o", "f", "t", "w", "a", "r", "e">>, <<"T", "o", "o", "l", "s">>}

SeedNames == << <<"T", "o", "o", "l", "s", " ">>, <<"c", "r", "m", " ", "t", "o", "o", "l", "s">>, <<"t", "a", "s", "k", " ", "t", "o", "o", "l", "s">>, <<"a", "c", "m", "e">>, <<" ">> >>

CompetitorNames == << <<"Z", "o", "h", "o">>, <<"t", "o", "o", "l", "s">>, <<"A", "C", "M", "E">> >>

SitemapUrl == <<"h", "t", "t", "p", "s", ":", "/", "/", "e", "x", "a", "m", "p", "l", "e", ".", "c", "o", "m", "/", "s", "i", "t", "e", "m", "a", "p", ".", "x", "m", "l">>

\* candidates as extract_entities_from_sitemap builds them: title-cased
\* names, a positive frequency, at most 5 source urls
SitemapCandidates ==
  { [name |-> <<"T", "o", "o", "l", "s">>, frequency |-> 1, source_urls |-> <<"u1">>,
     categories |-> <<"blog">>],
    [name |-> <<"C", "r", "m", " ", "T", "o", "o", "l", "s">>, frequency |-> 2, source_urls |-> <<"u2", "u3">>,
     categories |-> << >>],
    [name |-> <<"P", "r", "i", "c", "i", "n", "g">>, frequency |-> 1, source_urls |-> <<"u4">>,
     categories |-> <<"product">>] }

SeqsUpTo(S, n) == UNION {[1..k -> S] : k \in 0..n}

\* the lists of at most n of the elements of s, in the order of s
ListsFrom(s, n) ==
  {AtIndices(s, idx) : idx \in {x \in SUBSET (1..Len(s)) : Cardinality(x) <= n}}

\* extract_entities_from_sitemap keys the candidates by lower-cased name
\* and sorts them by frequency, highest first
CandidateListsUpTo(n) ==
  {l \in SeqsUpTo(SitemapCandidates, n) :
     /\ \A i, j \in 1..Len(l) : i < j =>
          /\ Lower(l[i].name) # Lower(l[j].name)
          /\ l[i].frequency >= l[j].frequency}

CandidateLists == CandidateListsUpTo(MaxCandidates)

NoSitemap == [raised |-> FALSE, extracted |-> << >>, done |-> 0]

\* the SitemapParser call returns a candidate list, or it raises
SitemapOutcomes ==
  {[raised |-> FALSE, extracted |-> l, done |-> Len(l)] : l \in CandidateLists}
  \cup {[raised |-> TRUE, extracted |-> << >>, done |-> 0]}

\* an exception inside the try block of _extract_from_sitemap while the
\* loop handles the candidate after the first done ones
InterruptedOutcomes ==
  UNION {{[raised |-> TRUE, extracted |-> l, done |-> k] :
            k \in 0..(Len(l) - 1)} :
           l \in CandidateListsUpTo(MaxInterruptedItems)}

\* the configurations the configuration form builds: seeds only in the seed
\* and hybrid modes, a sitemap url only in the sitemap and hybrid modes
FormConfigs ==
  {c \in [brand_name : BrandNames, primary_niche : NicheNames,
          source_mode : SourceMode, sitemap_url : {None, SitemapUrl},
          seed_entities : ListsFrom(SeedNames, MaxSeeds),
          competitors : ListsFrom(CompetitorNames, MaxCompetitors)] :
     /\ c.source_mode = "seed" => c.sitemap_url = None
     /\ c.source_mode = "sitemap" => c.seed_entities = << >>}

\* seed lists with more core entities than there are category nodes: the
\* names "k a", "k b", ... share the word "k"
WideSeeds(n) == [i \in 1..n |-> << "k", " ", LowerAlphabet[i] >>]

WideConfigs ==
  {[brand_name |-> brand, primary_niche |-> niche, source_mode |-> "seed",
    sitemap_url |-> None, seed_entities |-> WideSeeds(WideSeedCount),
    competitors |-> << >>] :
     brand \in BrandNames, niche \in NicheNames}

\* seed lists with a seed entity whose name contains the brand name, and
\* with a seed entity that gets more than 5 aliases
SpecialSeeds ==
  {<< <<"a", "c", "m", "e", " ", "t", "o", "o", "l", "s">> >>, << <<"a", "c", "m", "e", " ", "t", "o", "o", "l", "s">>, <<"T", "o", "o", "l", "s", " ">> >>, << <<"c", "r", "m", " ", "t", "o", "o", "l">> >>}

SpecialConfigs ==
  {[brand_name |-> brand, primary_niche |-> <<"S", "a", "l", "e", "s", " ", "S", "o", "f", "t", "w", "a", "r", "e">>,
    source_mode |-> "seed", sitemap_url |-> None, seed_entities |-> seeds,
    competitors |-> << >>] :
     brand \in BrandNames, seeds \in SpecialSeeds}

Configs == FormConfigs \cup WideConfigs \cup SpecialConfigs

\* the configurations the add_query calls are explored on
QueryConfigs ==
  {c \in FormConfigs :
     /\ Len(c.seed_entities) <= 1
     /\ c.competitors = << >>
     /\ c.primary_niche = <<"S", "a", "l", "e", "s", " ", "S", "o", "f", "t", "w", "a", "r", "e">>}

\* the queries handed to add_query
AddedQueries ==
  {[Query(<<"q">>, intent, << >>, "medium", << >>, "") EXCEPT
      !.estimated_volume = volume] :
     intent \in IntentType, volume \in {0, 10}}

\* the configurations whose build() reaches the SitemapParser call
SitemapConfigs ==
  {c \in FormConfigs :
     /\ c.source_mode # "seed"
     /\ c.sitemap_url # None
     /\ Len(c.seed_entities) <= 1
     /\ c.primary_niche = <<"S", "a", "l", "e", "s", " ", "S", "o", "f", "t", "w", "a", "r", "e">>}

\* the widgets of render_configuration_step filled in as a valid seed-mode,
\* sitemap-mode or hybrid-mode form
BaseForm(mode) ==
  [brand_name |-> <<"A", "c", "m", "e">>, primary_niche |-> <<"S", "a", "l", "e", "s", " ", "S", "o", "f", "t", "w", "a", "r", "e">>,
   business_goals |-> <<"lead_generation">>, source_mode |-> mode,
   seed_lines |-> << <<"c", "r", "m", " ", "t", "o", "o", "l", "s">> >>, sitemap_url |-> SitemapUrl,
   competitor_lines |-> << >>]

FormChoices ==
  [brand_name : {<<>>, <<"A", "c", "m", "e">>, <<"A", "&", "B">>},
   primary_niche : {<<"a", "b">>, <<"S", "a", "l", "e", "s", " ", "S", "o", "f", "t", "w", "a", "r", "e">>},
   business_goals : {<< >>, <<"lead_generation">>},
   source_mode : SourceMode,
   seed_lines : {<< >>, << <<"x">> >>, << <<"c", "r", "m", " ", "t", "o", "o", "l", "s">> >>,
                 << <<"c", "r", "m", " ", "t", "o", "o", "l", "s">>, <<" ">>, <<"C", "R", "M", " ", "T", "o", "o", "l", "s", " ">> >>},
   sitemap_url : {<<>>, <<"e", "x", "a", "m", "p", "l", "e", ".", "c", "o", "m", "/", "s", "i", "t", "e", "m", "a", "p", ".", "x", "m", "l">>,
                  <<"h", "t", "t", "p", "s", ":", "/", "/", "e", "x", "a", "m", "p", "l", "e", ".", "c", "o", "m", "/", "p", "a", "g", "e", "s">>, SitemapUrl},
   competitor_lines : {<< >>, << <<"Z">>, <<" ">> >>}]

\* the valid form of each mode and the forms with one widget filled in
\* differently
FormInputs ==
  {f \in FormChoices :
     Cardinality({k \in DOMAIN f : f[k] # BaseForm(f.source_mode)[k]}) <= 1}

\* [x.strip() for x in text.split("\n") if x.strip()]
StrippedLines(lines) ==
  LET stripped == [i \in 1..Len(lines) |-> Strip(lines[i])]
  IN  SelectSeq(stripped, LAMBDA line : Len(line) > 0)

\* the BrandFoundationConfig that render_configuration_step builds when the
\* button is pressed
ConfigOfForm(f) ==
  [brand_name |-> f.brand_name, primary_niche |-> f.primary_niche,
   business_goals |-> f.business_goals, source_mode |-> f.source_mode,
   sitemap_url |->
     IF f.source_mode \in {"sitemap", "hybrid"} THEN f.sitemap_url ELSE None,
   seed_entities |->
     IF f.source_mode \in {"seed", "hybrid"}
       THEN StrippedLines(f.seed_lines) ELSE << >>,
   competitors |-> StrippedLines(f.competitor_lines)]

\* init_session_state
InitSessionState ==
  [step |-> 0, config |-> None, output |-> None, processing |-> FALSE]

(***************************************************************************)
(* State machine                                                           *)
(***************************************************************************)
Init ==
  /\ config \in Configs
  /\ sitemap_outcome = NoSitemap
  /\ builder = OntologyBuilderNew
  /\ ontology = None
  /\ other = None
  /\ taxonomy = None
  /\ query_clusters = << >>
  /\ added = 0
  /\ designer_clusters = << >>
  /\ hubs = << >>
  /\ pc = "config"
  /\ session = InitSessionState
  /\ form = None

\* whether build() reaches the SitemapParser call
ReadsSitemap(cfg) == cfg.source_mode # "seed" /\ cfg.sitemap_url # None

\* process_framework, step 1: OntologyBuilder(config).build()
BuildOntology ==
  /\ pc = "config"
  /\ \E outcome \in SitemapOutcomes :
       /\ ReadsSitemap(config) \/ outcome = NoSitemap
       /\ sitemap_outcome' = outcome
       /\ builder' = BuildBuilder(builder, config, outcome)
  /\ ontology' = OntologyOf(builder', config)
  /\ pc' = "ontology"
  /\ UNCHANGED <<session, form, config, other, taxonomy, query_clusters, added,
                 designer_clusters, hubs>>

\* a second OntologyBuilder(config) is constructed and built, next to the
\* first one
BuildOnNewBuilder ==
  /\ pc = "ontology"
  /\ \E outcome \in SitemapOutcomes :
       /\ ReadsSitemap(config) \/ outcome = NoSitemap
       /\ other' = OntologyOf(BuildBuilder(OntologyBuilderNew, config, outcome),
                              config)
  /\ pc' = "built_twice"
  /\ UNCHANGED <<session, form, config, sitemap_outcome, builder, ontology, taxonomy,
                 query_clusters, added, designer_clusters, hubs>>

\* process_framework, step 2: EntitySearchExpander(ontology)
\* .expand_all_entities()
ExpandEntities ==
  /\ pc = "ontology"
  /\ \E hash_seed \in 1..NumHashSeeds :
       ontology' = ExpandAllEntities(ontology, hash_seed)
  /\ pc' = "expanded"
  /\ UNCHANGED <<session, form, config, sitemap_outcome, builder, other, taxonomy,
                 query_clusters, added, designer_clusters, hubs>>

\* process_framework, step 3: TaxonomyBuilder(ontology, niche).build()
BuildTaxonomyStep ==
  /\ pc = "expanded"
  /\ taxonomy' = BuildTaxonomy(ontology, config.primary_niche)
  /\ pc' = "taxonomy"
  /\ UNCHANGED <<session, form, config, sitemap_outcome, builder, ontology, other,
                 query_clusters, added, designer_clusters, hubs>>

\* process_framework, step 4: QueryMapper(ontology).map_all_entities()
MapQueries ==
  /\ pc = "taxonomy"
  /\ query_clusters' = MapAllEntities(ontology)
  /\ pc' = "queries"
  /\ UNCHANGED <<session, form, config, sitemap_outcome, builder, ontology, other, taxonomy,
                 added, designer_clusters, hubs>>

\* cluster.add_query(query) on a cluster that map_all_entities returned
AddQuery ==
  /\ pc = "queries"
  /\ added < MaxAddedQueries
  /\ \E i \in 1..Len(query_clusters), query \in AddedQueries :
       query_clusters' =
         [query_clusters EXCEPT ![i] = ClusterAddQuery(@, query)]
  /\ added' = added + 1
  /\ UNCHANGED <<session, form, config, sitemap_outcome, builder, ontology, other, taxonomy,
                 designer_clusters, hubs, pc>>

\* the cluster lists a HubDesigner is constructed with: process_framework
\* hands over every cluster; a caller of the class may hold fewer
DesignerInputs(clusters) ==
  {clusters, << >>} \cup (IF Len(clusters) > 0 THEN {Tail(clusters)} ELSE {})

\* process_framework, step 5: HubDesigner(ontology, taxonomy, clusters)
\* .design_all_hubs()
DesignHubs ==
  /\ pc = "queries"
  /\ added = 0
  /\ \E clusters \in DesignerInputs(query_clusters) :
       /\ designer_clusters' = clusters
       /\ hubs' = DesignAllHubs(ontology, taxonomy, clusters)
  /\ pc' = "hubs"
  /\ UNCHANGED <<session, form, config, sitemap_outcome, builder, ontology, other, taxonomy,
                 query_clusters, added>>

\* build() where the try block of _extract_from_sitemap is left by an
\* exception raised while the loop runs; the builder ends as it does for
\* the candidates the loop had handled
BuildInterrupted ==
  /\ pc = "config"
  /\ ReadsSitemap(config)
  /\ \E outcome \in InterruptedOutcomes :
       /\ sitemap_outcome' = outcome
       /\ builder' = BuildBuilder(builder, config, outcome)
  /\ ontology' = OntologyOf(builder', config)
  /\ pc' = "ontology"
  /\ UNCHANGED <<session, form, config, other, taxonomy, query_clusters,
                 added, designer_clusters, hubs>>

\* build() is called once more on the same builder, and the sitemap
\* extraction does what it did the first time
BuildAgain ==
  /\ pc = "ontology"
  /\ builder' = BuildBuilder(builder, config, sitemap_outcome)
  /\ ontology' = OntologyOf(builder', config)
  /\ pc' = "built_again"
  /\ UNCHANGED <<session, form, config, sitemap_outcome, other, taxonomy,
                 query_clusters, added, designer_clusters, hubs>>

\* expand_all_entities() is called once more on the expanded ontology
ExpandAgain ==
  /\ pc = "expanded"
  /\ \E hash_seed \in 1..NumHashSeeds :
       ontology' = ExpandAllEntities(ontology, hash_seed)
  /\ pc' = "expanded_again"
  /\ UNCHANGED <<session, form, config, sitemap_outcome, builder, other,
                 taxonomy, query_clusters, added, designer_clusters, hubs>>

Next ==
  \/ BuildOntology
  \/ BuildOnNewBuilder
  \/ ExpandEntities
  \/ BuildTaxonomyStep
  \/ MapQueries
  \/ DesignHubs

Spec == Init /\ [][Next]_vars

\* the run up to the query clusters, and add_query calls on them
InitQueries == Init /\ config \in QueryConfigs

NextQueries ==
  \/ BuildOntology
  \/ ExpandEntities
  \/ BuildTaxonomyStep
  \/ MapQueries
  \/ AddQuery

SpecQueries == InitQueries /\ [][NextQueries]_vars

\* the builds that read a sitemap, a second build() on the same builder and
\* a second expand_all_entities() on the same ontology
InitSitemap == Init /\ config \in SitemapConfigs

NextSitemap ==
  \/ BuildOntology
  \/ BuildInterrupted
  \/ BuildAgain
  \/ ExpandEntities
  \/ ExpandAgain

SpecSitemap == InitSitemap /\ [][NextSitemap]_vars

\* main() with st.session_state.processing false and step 0: the button of
\* render_configuration_step is pressed on a filled-in form; process_framework
\* reads the stored config and constructs its builder when main() runs next
Submit ==
  /\ pc = "idle"
  /\ ~session.processing
  /\ session.step = 0
  /\ \E f \in FormInputs :
       LET cfg == ConfigOfForm(f)
           errors == ValidateConfig(cfg)
       IN  /\ form' = f
           /\ IF HasErrors(errors)
                THEN UNCHANGED <<session, config, sitemap_outcome, builder,
                                 ontology, taxonomy, query_clusters,
                                 designer_clusters, hubs, pc>>
                ELSE /\ session' = [session EXCEPT !.config = cfg,
                                                   !.processing = TRUE]
                     /\ config' = cfg
                     /\ sitemap_outcome' = NoSitemap
                     /\ builder' = OntologyBuilderNew
                     /\ ontology' = None
                     /\ taxonomy' = None
                     /\ query_clusters' = << >>
                     /\ designer_clusters' = << >>
                     /\ hubs' = << >>
                     /\ pc' = "config"
  /\ UNCHANGED <<other, added>>

\* process_framework after step 5: the content specifications and the
\* measurement plan are made, the output is stored and the function
\* returns, which ends its local variables
StoreOutput ==
  /\ pc = "hubs"
  /\ session.processing
  /\ session' = [session EXCEPT
                   !.output = [brand_name |-> config.brand_name,
                               primary_niche |-> config.primary_niche],
                   !.processing = FALSE,
                   !.step = 1]
  /\ config' = None
  /\ sitemap_outcome' = NoSitemap
  /\ builder' = OntologyBuilderNew
  /\ ontology' = None
  /\ taxonomy' = None
  /\ query_clusters' = << >>
  /\ designer_clusters' = << >>
  /\ hubs' = << >>
  /\ pc' = "idle"
  /\ UNCHANGED <<form, other, added>>

\* process_framework: a statement of the try block raises an Exception; the
\* except clause shows the error and sets processing to False, and main()
\* returns with no step screen rendered
ProcessingFailsKeepingFlag ==
  /\ pc \in {"config", "ontology", "expanded", "taxonomy", "queries", "hubs"}
  /\ session.processing
  /\ config' = None
  /\ sitemap_outcome' = NoSitemap
  /\ builder' = OntologyBuilderNew
  /\ ontology' = None
  /\ taxonomy' = None
  /\ query_clusters' = << >>
  /\ designer_clusters' = << >>
  /\ hubs' = << >>
  /\ pc' = "failed"
  /\ UNCHANGED <<session, form, other, added>>

ProcessingFails ==
  /\ pc \in {"config", "ontology", "expanded", "taxonomy", "queries", "hubs"}
  /\ session.processing
  /\ session' = [session EXCEPT !.processing = FALSE]
  /\ config' = None
  /\ sitemap_outcome' = NoSitemap
  /\ builder' = OntologyBuilderNew
  /\ ontology' = None
  /\ taxonomy' = None
  /\ query_clusters' = << >>
  /\ designer_clusters' = << >>
  /\ hubs' = << >>
  /\ pc' = "failed"
  /\ UNCHANGED <<form, other, added>>

\* render_sidebar: an enabled button, of a step up to the current one, is
\* pressed on a step screen or next to the error of a failed run, and
\* main() renders the screen of that step
SidebarNavigate ==
  /\ pc \in {"idle", "failed"}
  /\ ~session.processing
  /\ \E i \in 0..session.step : session' = [session EXCEPT !.step = i]
  /\ pc' = "idle"
  /\ UNCHANGED <<form, config, sitemap_outcome, builder, ontology, other,
                 taxonomy, query_clusters, added, designer_clusters, hubs>>

\* the "Next" button of the screens of steps 1 to 7 or the "Back" button of
\* the screens of steps 2 to 7 is pressed
StepButton ==
  /\ pc = "idle"
  /\ ~session.processing
  /\ \E target \in {session.step + 1, session.step - 1} :
       /\ target = session.step + 1 => session.step \in 1..7
       /\ target = session.step - 1 => session.step \in 2..7
       /\ session' = [session EXCEPT !.step = target]
  /\ UNCHANGED <<form, config, sitemap_outcome, builder, ontology, other,
                 taxonomy, query_clusters, added, designer_clusters, hubs, pc>>

\* render_export_step: the button "Start Over" is pressed
StartOver ==
  /\ pc = "idle"
  /\ ~session.processing
  /\ session.step = 8
  /\ session' = [session EXCEPT !.step = 0, !.config = None, !.output = None]
  /\ UNCHANGED <<form, config, sitemap_outcome, builder, ontology, other,
                 taxonomy, query_clusters, added, designer_clusters, hubs, pc>>

\* the application: main() run after run
InitApp ==
  /\ config = None
  /\ sitemap_outcome = NoSitemap
  /\ builder = OntologyBuilderNew
  /\ ontology = None
  /\ other = None
  /\ taxonomy = None
  /\ query_clusters = << >>
  /\ added = 0
  /\ designer_clusters = << >>
  /\ hubs = << >>
  /\ pc = "idle"
  /\ session = InitSessionState
  /\ form = None

NextApp ==
  \/ Submit
  \/ BuildOntology
  \/ ExpandEntities
  \/ BuildTaxonomyStep
  \/ MapQueries
  \/ DesignHubs
  \/ StoreOutput
  \/ ProcessingFails
  \/ SidebarNavigate
  \/ StepButton
  \/ StartOver

SpecApp == InitApp /\ [][NextApp]_vars

(***************************************************************************)
(* Properties                                                              *)
(***************************************************************************)

\* C1: in every built taxonomy exactly one node has parent_id = None (the
\* root), the parent_id of every other node is the id of a node of the
\* taxonomy, and no node is its own ancestor; also when the niche has the
\* normalized name of an entity.
C1_TreeWellFormed ==
  pc \in {"taxonomy", "queries", "hubs"} =>
    LET nodes == taxonomy.nodes
        ids == {nodes[i].id : i \in 1..Len(nodes)}
        ParentOf(id) == (CHOOSE n \in Range(nodes) : n.id = id).parent_id
        RECURSIVE Ancestor(_, _)
        Ancestor(id, k) ==
          IF k = 0 THEN id
          ELSE LET below == Ancestor(id, k - 1)
               IN  IF below \in ids THEN ParentOf(below) ELSE None
    IN  /\ Cardinality({i \in 1..Len(nodes) : nodes[i].parent_id = None}) = 1
        /\ \A i \in 1..Len(nodes) :
             nodes[i].parent_id # None => nodes[i].parent_id \in ids
        /\ \A i \in 1..Len(nodes) : \A k \in 1..Len(nodes) :
             Ancestor(nodes[i].id, k) # nodes[i].id

\* C2: in a built taxonomy every entity id is listed in the entity_ids of at
\* most one node, and at most once there.
C2_EntityInAtMostOneNode ==
  pc \in {"taxonomy", "queries", "hubs"} =>
    LET nodes == taxonomy.nodes
    IN  \A i, j \in 1..Len(nodes) :
          \A k \in 1..Len(nodes[i].entity_ids) :
            \A l \in 1..Len(nodes[j].entity_ids) :
              nodes[i].entity_ids[k] = nodes[j].entity_ids[l]
                => (i = j /\ k = l)

\* a built taxonomy where an entity that is no competitor is among the
\* related entities of two category nodes and sits in a subcategory node
C2_Witness ==
  /\ pc \in {"taxonomy", "queries", "hubs"}
  /\ LET nodes == taxonomy.nodes
         RelatedOf(i) ==
           Prefix(GetRelatedEntities(ontology, nodes[i].entity_ids[1]),
                  MaxSubcategories)
         Reaches(i, e) ==
           /\ nodes[i].level = 1
           /\ Len(nodes[i].entity_ids) > 0
           /\ \E r \in Range(RelatedOf(i)) : r.entity.id = e.id
     IN  \E e \in Range(ontology.entities) :
           /\ e.type # "competitor"
           /\ \E i, j \in 1..Len(nodes) :
                i # j /\ Reaches(i, e) /\ Reaches(j, e)
           /\ \E n \in 1..Len(nodes) :
                nodes[n].level = 2 /\ nodes[n].entity_ids = << e.id >>

\* C3: in a built ontology no two entities have the same id, no two entities
\* have names with the same lower-cased, stripped text, and every name that
\* build() read (the brand, the seeds and competitors of the seed and hybrid
\* modes, the sitemap candidates) has exactly one entity of its normalized
\* name.
C3_OneEntityPerName ==
  pc # "config" =>
    LET es == ontology.entities
        Norm(name) == Strip(Lower(name))
        listed ==
          IF config.source_mode = "sitemap" THEN {}
          ELSE Range(config.seed_entities) \cup Range(config.competitors)
        found ==
          IF ReadsSitemap(config) /\ ~sitemap_outcome.raised
            THEN {c.name : c \in Range(Prefix(sitemap_outcome.extracted, 50))}
            ELSE {}
        read == {config.brand_name} \cup listed \cup found
    IN  /\ \A i, j \in 1..Len(es) : es[i].id = es[j].id => i = j
        /\ \A i, j \in 1..Len(es) :
             Norm(es[i].name) = Norm(es[j].name) => i = j
        /\ \A name \in read :
             Norm(name) # << >> =>
               Cardinality({i \in 1..Len(es) :
                              Norm(es[i].name) = Norm(name)}) = 1

\* a built ontology whose configuration lists two names of different text
\* and the same normalized name
C3_Witness ==
  /\ pc # "config"
  /\ config.source_mode # "sitemap"
  /\ \E a, b \in {config.brand_name} \cup Range(config.seed_entities)
                   \cup Range(config.competitors) :
       /\ a # b
       /\ Strip(Lower(a)) = Strip(Lower(b))
       /\ Strip(Lower(a)) # << >>
       /\ \E e \in Range(ontology.entities) :
            Strip(Lower(e.name)) = Strip(Lower(a))

C5_IntentDistribution ==
  \A c \in 1..Len(query_clusters) :
    LET cluster == query_clusters[c]
        dist == cluster.intent_distribution
        RECURSIVE Total(_)
        Total(keys) ==
          IF keys = {} THEN 0
          ELSE LET key == CHOOSE key \in keys : TRUE
               IN  dist[key] + Total(keys \ {key})
        CountOf(intent) == IF intent \in DOMAIN dist THEN dist[intent] ELSE 0
    IN  /\ Total(DOMAIN dist) = Len(cluster.queries)
        /\ \A intent \in IntentType :
             CountOf(intent) =
               Cardinality({k \in 1..Len(cluster.queries) :
                              cluster.queries[k].intent = intent})

\* add_query has put a query of an intent that map_all_entities never
\* produces into a cluster
C5_Witness ==
  /\ added > 0
  /\ \E c \in 1..Len(query_clusters) :
       /\ "navigational" \in DOMAIN query_clusters[c].intent_distribution
       /\ Len(query_clusters[c].queries) > 1

\* C6: the coverage_score of every designed hub is at least 0 and at most 1.
C6_CoverageInUnitInterval ==
  pc = "hubs" =>
    \A h \in 1..Len(hubs) :
      /\ hubs[h].coverage_score.den > 0
      /\ 0 <= hubs[h].coverage_score.num
      /\ hubs[h].coverage_score.num <= hubs[h].coverage_score.den

\* a hub designed without a cluster for its entity, with no cluster page and
\* no supporting page
C6_Witness ==
  /\ pc = "hubs"
  /\ \E h \in 1..Len(hubs) :
       /\ Len(QueryMapGet(designer_clusters, hubs[h].primary_entity_id)) = 0
       /\ hubs[h].cluster_pages = << >>
       /\ hubs[h].supporting_pages = << >>

\* C7: no taxonomy node has more than 10 internal_links_to, no hub more than
\* 10 cluster pages, and there are at most 15 nodes of level 1 and at most
\* 15 hubs.
C7_Caps ==
  /\ pc \in {"taxonomy", "queries", "hubs"} =>
       /\ \A i \in 1..Len(taxonomy.nodes) :
            Len(taxonomy.nodes[i].internal_links_to) <= 10
       /\ Cardinality({i \in 1..Len(taxonomy.nodes) :
                         taxonomy.nodes[i].level = 1}) <= 15
  /\ pc = "hubs" =>
       /\ Len(hubs) <= 15
       /\ \A h \in 1..Len(hubs) : Len(hubs[h].cluster_pages) <= 10

\* hubs designed for an ontology of more than 15 core entities: 15 category
\* nodes, a node with 10 links, 15 hubs and a hub with 10 cluster pages
C7_Witness ==
  /\ pc = "hubs"
  /\ Cardinality({i \in 1..Len(ontology.entities) :
                    ontology.entities[i].type = "core"}) > 15
  /\ Cardinality({i \in 1..Len(taxonomy.nodes) :
                    taxonomy.nodes[i].level = 1}) = 15
  /\ \E i \in 1..Len(taxonomy.nodes) :
       Len(taxonomy.nodes[i].internal_links_to) = 10
  /\ Len(hubs) = 15
  /\ \E h \in 1..Len(hubs) : Len(hubs[h].cluster_pages) = 10

\* C8: in the ontology build() returns the brand entity has the type core,
\* semantic_centrality 1.0 and commercial_value 1.0.
C8_BrandScores ==
  pc # "config" =>
    \A e \in Range(ontology.entities) :
      e.id = Strip(Lower(config.brand_name)) =>
        /\ e.type = "core"
        /\ e.semantic_centrality.num = e.semantic_centrality.den
        /\ e.commercial_value = 10

\* C9: in every source mode each competitor name that is not empty has an
\* entity of type competitor, with a bidirectional alternative_to
\* relationship of weight 0.6 between it and the brand.
C9_CompetitorEdges ==
  pc # "config" =>
    \A k \in 1..Len(config.competitors) :
      LET name == Strip(config.competitors[k])
          brand_id == Strip(Lower(config.brand_name))
      IN  name # << >> =>
            \E e \in Range(ontology.entities) :
              /\ e.id = Strip(Lower(name))
              /\ e.type = "competitor"
              /\ \E r \in Range(ontology.relationships) :
                   /\ {r.source_id, r.target_id} = {e.id, brand_id}
                   /\ r.relationship_type = "alternative_to"
                   /\ r.weight = 6
                   /\ r.bidirectional

\* C10: in a built ontology an entity other than the brand has a part_of
\* relationship of weight 0.8 to the brand exactly if its type is core.
C10_PartOfBrand ==
  pc # "config" =>
    LET brand_id == Strip(Lower(config.brand_name))
        PartOfBrand(e) ==
          \E r \in Range(ontology.relationships) :
            /\ r.source_id = e.id
            /\ r.target_id = brand_id
            /\ r.relationship_type = "part_of"
            /\ r.weight = 8
    IN  \A e \in Range(ontology.entities) :
          e.id # brand_id => (e.type = "core" <=> PartOfBrand(e))

\* a built ontology of at least three core entities and an entity of
\* another type
C10_Witness ==
  /\ pc = "ontology"
  /\ Cardinality({i \in 1..Len(ontology.entities) :
                    ontology.entities[i].type = "core"}) >= 3
  /\ \E e \in Range(ontology.entities) : e.type # "core"

\* C11: for every two entities of a built ontology of which one lower-cased
\* name is a proper substring of the other, the ontology has an is_a
\* relationship of weight 0.7 from the entity with the containing name to
\* the entity with the contained name, whichever of them was created first.
C11_ContainmentEdges ==
  pc # "config" =>
    \A e1, e2 \in Range(ontology.entities) :
      ( /\ e1.id # e2.id
        /\ Lower(e1.name) # Lower(e2.name)
        /\ Contains(Lower(e2.name), Lower(e1.name)) ) =>
        \E r \in Range(ontology.relationships) :
          /\ r.source_id = e2.id
          /\ r.target_id = e1.id
          /\ r.relationship_type = "is_a"
          /\ r.weight = 7

\* a built ontology where an entity with a containing name was created
\* before the entity with the contained name, and one where it was created
\* after it
C11_Witness ==
  /\ pc = "ontology"
  /\ \E i, j, k, l \in 1..Len(ontology.entities) :
       /\ i < j
       /\ Lower(ontology.entities[i].name) # Lower(ontology.entities[j].name)
       /\ Contains(Lower(ontology.entities[i].name),
                   Lower(ontology.entities[j].name))
       /\ k < l
       /\ Lower(ontology.entities[k].name) # Lower(ontology.entities[l].name)
       /\ Contains(Lower(ontology.entities[l].name),
                   Lower(ontology.entities[k].name))

\* C12: for every two entities of a built ontology whose lower-cased names
\* share a whitespace-delimited token that is not a stopword, the ontology
\* has a bidirectional relates_to relationship of weight 0.5 between them,
\* also when one name contains the other and the pair has an is_a
\* relationship.
C12_SharedTokenEdges ==
  pc # "config" =>
    \A e1, e2 \in Range(ontology.entities) :
      ( /\ e1.id # e2.id
        /\ (Range(Split(Lower(e1.name))) \cap Range(Split(Lower(e2.name))))
             \ StopWords # {} ) =>
        \E r \in Range(ontology.relationships) :
          /\ {r.source_id, r.target_id} = {e1.id, e2.id}
          /\ r.relationship_type = "relates_to"
          /\ r.weight = 5
          /\ r.bidirectional

\* C13: process_framework is started only for a configuration whose
\* validation findings have no finding of severity error.  When the button
\* is pressed on a form whose configuration has such a finding, processing
\* stays false and the stored config and output stay as they are; when it
\* has none, warnings or not, the config is stored, processing becomes true
\* and the pipeline runs on that config.
C13_NoStartOnErrors ==
  [][LET ErrorFinding(cfg) ==
           \E i \in 1..Len(ValidateConfig(cfg)) :
             ValidateConfig(cfg)[i].severity = "error"
         pressed == form' # form \/ (session'.processing /\ ~session.processing)
     IN  /\ pressed =>
              IF ErrorFinding(ConfigOfForm(form'))
                THEN /\ ~session'.processing
                     /\ session'.config = session.config
                     /\ session'.output = session.output
                     /\ pc' = "idle"
                ELSE /\ session'.processing
                     /\ session'.config = ConfigOfForm(form')
                     /\ config' = session'.config
                     /\ pc' = "config"
         /\ pc' \notin {"idle", "failed"} =>
              /\ session'.processing
              /\ config' = session'.config
              /\ ~ErrorFinding(config')]_vars

\* the pipeline has run to its last step on a configuration whose findings
\* are warnings, after an earlier run has stored its output
C13_Witness ==
  /\ pc = "hubs"
  /\ session.processing
  /\ session.output # None
  /\ ValidateConfig(session.config) # << >>
  /\ \A i \in 1..Len(ValidateConfig(session.config)) :
       ValidateConfig(session.config)[i].severity = "warning"

\* C14: when the sitemap extraction raises, in the parser or while the loop
\* over the candidates runs, build() still returns an Ontology: it has the
\* brand entity, the entities of the seeds and competitors and of the
\* candidates handled before the exception, and no others; relationship
\* inference and scoring have been applied to them; in sitemap mode with
\* nothing handled it has the brand entity only.
C14_SitemapFailureNotFatal ==
  (pc = "ontology" /\ sitemap_outcome.raised) =>
    LET brand_id == Strip(Lower(config.brand_name))
        typed ==
          IF config.source_mode = "hybrid"
            THEN config.seed_entities \o config.competitors
            ELSE << >>
        handled == SubSeq(sitemap_outcome.extracted, 1, sitemap_outcome.done)
        created ==
          ({Strip(Lower(typed[k])) : k \in 1..Len(typed)} \ {<< >>})
            \cup {Strip(Lower(handled[k].name)) : k \in 1..Len(handled)}
        ids == {e.id : e \in Range(ontology.entities)}
    IN  /\ ontology # None
        /\ ids = created \cup {brand_id}
        /\ \A e \in Range(ontology.entities) :
             /\ (e.id # brand_id /\ e.type = "core") =>
                  \E r \in Range(ontology.relationships) :
                    /\ r.source_id = e.id
                    /\ r.target_id = brand_id
                    /\ r.relationship_type = "part_of"
             /\ e.commercial_value =
                  (CASE e.type = "core" -> 8
                     [] e.type = "supporting" -> 4
                     [] e.type = "competitor" -> 3
                     [] OTHER -> 5)
        /\ (config.source_mode = "sitemap" /\ sitemap_outcome.done = 0) =>
             /\ Len(ontology.entities) = 1
             /\ ontology.entities[1].id = brand_id
             /\ ontology.relationships = << >>

\* build() has returned after an exception that was raised with one
\* candidate handled, in hybrid mode with a seed
C14_Witness ==
  /\ pc = "ontology"
  /\ sitemap_outcome.raised
  /\ sitemap_outcome.done >= 1
  /\ Len(sitemap_outcome.extracted) > sitemap_outcome.done
  /\ config.source_mode = "hybrid"
  /\ Len(ontology.entities) >= 3
  /\ Len(ontology.relationships) >= 2

\* C15: a sitemap candidate whose normalized name already has an entity
\* makes no second entity and leaves that entity's id, name, type, aliases
\* and attributes as they are, and its source_urls are appended to the
\* entity's source_urls: after the first build the entity of a seed or
\* competitor is still the one _create_from_seeds made, and a second build
\* with the same candidates keeps the entities and their order and appends
\* the candidates' source_urls once more.
C15_IngestMerges ==
  [][LET handled ==
           IF sitemap_outcome'.raised
             THEN SubSeq(sitemap_outcome'.extracted, 1, sitemap_outcome'.done)
             ELSE sitemap_outcome'.extracted
         UrlsFor(id) ==
           Concat([k \in 1..Len(handled) |->
                     IF Strip(Lower(handled[k].name)) = id
                       THEN handled[k].source_urls ELSE << >>])
         brand_id == Strip(Lower(config.brand_name))
         before == builder.entities
         after == builder'.entities
     IN  /\ pc' \in {"ontology", "built_again"} =>
              \A i, j \in 1..Len(after) : after[i].id = after[j].id => i = j
         /\ (pc' = "ontology" /\ config.source_mode = "hybrid") =>
              /\ \A k \in 1..Len(config.seed_entities) :
                   LET seed == Strip(config.seed_entities[k])
                   IN  (seed # << >> /\ Strip(Lower(seed)) # brand_id) =>
                         \E e \in Range(after) :
                           /\ e.id = Strip(Lower(seed))
                           /\ e.name = seed
                           /\ e.type = "core"
                           /\ e.aliases = GenerateAliases(seed)
                           /\ e.attributes = << >>
                           /\ e.source_urls = UrlsFor(e.id)
              /\ \A e \in Range(after) :
                   e.type = "competitor" =>
                     /\ e.aliases = << >>
                     /\ e.attributes = << >>
                     /\ e.source_urls = UrlsFor(e.id)
         /\ (pc = "ontology" /\ pc' = "built_again") =>
              /\ Len(after) = Len(before)
              /\ \A i \in 1..Len(before) :
                   /\ after[i].id = before[i].id
                   /\ after[i].name = before[i].name
                   /\ after[i].type = before[i].type
                   /\ after[i].aliases = before[i].aliases
                   /\ after[i].attributes = before[i].attributes
                   /\ after[i].source_urls =
                        before[i].source_urls \o UrlsFor(before[i].id)]_vars

\* a second build has run in hybrid mode where a candidate has the
\* normalized name of a seed, and the seed's entity has the candidate's
\* source urls twice
C15_Witness ==
  /\ pc = "built_again"
  /\ config.source_mode = "hybrid"
  /\ ~sitemap_outcome.raised
  /\ \E k \in 1..Len(config.seed_entities) :
       \E c \in Range(sitemap_outcome.extracted) :
         /\ Strip(Lower(c.name)) = Strip(Lower(config.seed_entities[k]))
         /\ \E e \in Range(builder.entities) :
              /\ e.id = Strip(Lower(c.name))
              /\ e.type = "core"
              /\ e.source_urls = c.source_urls \o c.source_urls

\* C16: _expand_entity replaces the aliases of an entity: after
\* expand_all_entities() the alias set of every entity is the set the
\* variant rules derive from its name alone, so an alias the entity had
\* before that the rules do not derive from the name is gone.
C16_AliasesFromNameOnly ==
  pc = "expanded" =>
    \A e \in Range(ontology.entities) :
      Range(e.aliases) = ExpandedAliasSet([e EXCEPT !.aliases = << >>])

\* C17: alias expansion is idempotent: a second expand_all_entities()
\* leaves every entity with the alias set the first one gave it.
C17_ExpansionIdempotent ==
  [][(pc = "expanded" /\ pc' = "expanded_again") =>
       /\ Len(ontology'.entities) = Len(ontology.entities)
       /\ \A i \in 1..Len(ontology.entities) :
            /\ Range(ontology'.entities[i].aliases)
                 = Range(ontology.entities[i].aliases)
            /\ Len(ontology'.entities[i].aliases)
                 = Len(ontology.entities[i].aliases)]_vars

\* the expansion has run twice on an entity that came with an upper-case
\* acronym from the builder and got further aliases from the expansion
C17_Witness ==
  /\ pc = "expanded_again"
  /\ \E e \in Range(ontology.entities) :
       /\ Len(e.aliases) >= 4
       /\ \E a \in Range(e.aliases) : \A i \in 1..Len(a) : IsUpper(a[i])

\* C18: after expand_all_entities() every alias of every entity is
\* lower-case, has at least 2 characters, differs from the entity's name and
\* occurs once in the alias list.
C18_AliasesNormalized ==
  pc = "expanded" =>
    \A e \in Range(ontology.entities) :
      \A i \in 1..Len(e.aliases) :
        /\ e.aliases[i] = Lower(e.aliases[i])
        /\ Len(e.aliases[i]) >= 2
        /\ e.aliases[i] # e.name
        /\ \A j \in 1..Len(e.aliases) : e.aliases[j] = e.aliases[i] => j = i

\* C19: after design_all_hubs() the internal_link_count of every hub is the
\* sum of the lengths of internal_links_to over the hub's pillar, cluster
\* and supporting pages, the links between hubs included.
C19_LinkCountIsSum ==
  pc = "hubs" =>
    \A h \in 1..Len(hubs) :
      hubs[h].internal_link_count =
        SumOf([i \in 1..Len(AllPages(hubs[h])) |->
                 Len(AllPages(hubs[h])[i].internal_links_to)])

\* C20: after design_all_hubs(), for every two hubs whose primary entities
\* have a relationship in the ontology, in either direction and
\* bidirectional or not, each pillar page lists the other's pillar id in
\* internal_links_to, and no internal_links_to of a pillar page has an id
\* twice.
C20_PillarsMutuallyLinked ==
  pc = "hubs" =>
    /\ \A a, b \in 1..Len(hubs) :
         ( /\ a # b
           /\ \E r \in Range(ontology.relationships) :
                /\ r.source_id = hubs[a].primary_entity_id
                /\ r.target_id = hubs[b].primary_entity_id ) =>
           /\ hubs[b].pillar_page.id
                \in Range(hubs[a].pillar_page.internal_links_to)
           /\ hubs[a].pillar_page.id
                \in Range(hubs[b].pillar_page.internal_links_to)
    /\ \A h \in 1..Len(hubs) :
         LET links == hubs[h].pillar_page.internal_links_to
         IN  \A i, j \in 1..Len(links) : links[i] = links[j] => i = j

\* C21: a hub of the full pipeline whose primary entity has no related
\* entities has one pillar page and no supporting pages, and its
\* coverage_score is the mean of the intent coverage and the link density
\* alone, without a query coverage.
C21_CoverageWithoutRelated ==
  (pc = "hubs" /\ designer_clusters = query_clusters) =>
    \A h \in 1..Len(hubs) :
      GetRelatedEntities(ontology, hubs[h].primary_entity_id) = << >> =>
        LET pages == AllPages(hubs[h])
            intents == UNION {Range(pages[i].target_intents) :
                                i \in 1..Len(pages)}
            expected == Len(pages) * 3
            links == IF hubs[h].internal_link_count >= expected
                       THEN expected ELSE hubs[h].internal_link_count
            score == hubs[h].coverage_score
        IN  /\ hubs[h].pillar_page # None
            /\ hubs[h].supporting_pages = << >>
            /\ score.num * (2 * 5 * expected)
                 = (Cardinality(intents) * expected + links * 5) * score.den

\* C22: the outputs of a pipeline run have no dangling ids: the source_id
\* and target_id of every relationship are ids of entities of the ontology,
\* the entity_ids and internal_links_to of every taxonomy node are ids of
\* entities and of nodes of the taxonomy, and the internal_links_to of every
\* HubPage are ids of pages of the designed hubs.
C22_NoDanglingIds ==
  LET entity_ids == {e.id : e \in Range(ontology.entities)}
      node_ids == {n.id : n \in Range(taxonomy.nodes)}
      page_ids == UNION {{p.id : p \in Range(AllPages(hubs[h]))} :
                           h \in 1..Len(hubs)}
  IN  /\ pc \in {"ontology", "expanded", "taxonomy", "queries", "hubs"} =>
           \A r \in Range(ontology.relationships) :
             r.source_id \in entity_ids /\ r.target_id \in entity_ids
      /\ pc \in {"taxonomy", "queries", "hubs"} =>
           \A n \in Range(taxonomy.nodes) :
             /\ Range(n.entity_ids) \subseteq entity_ids
             /\ Range(n.internal_links_to) \subseteq node_ids
      /\ pc = "hubs" =>
           \A h \in 1..Len(hubs) :
             \A p \in Range(AllPages(hubs[h])) :
               Range(p.internal_links_to) \subseteq page_ids

\* the hubs of a run with relationships between the entities, links between
\* the taxonomy nodes and a link from one hub's pillar page to another's
C22_Witness ==
  /\ pc = "hubs"
  /\ Len(ontology.relationships) >= 3
  /\ \E n \in Range(taxonomy.nodes) : Len(n.internal_links_to) >= 3
  /\ \E a, b \in 1..Len(hubs) :
       /\ a # b
       /\ hubs[b].pillar_page.id
            \in Range(hubs[a].pillar_page.internal_links_to)
  /\ \E h \in 1..Len(hubs) : hubs[h].supporting_pages # << >>

\* C25: after design_all_hubs() internal_links_from is the inverse of
\* internal_links_to over the pages of the designed hubs: the id of a page P
\* is in the internal_links_from of a page Q exactly if the id of Q is in
\* the internal_links_to of P.
C25_LinksFromIsInverse ==
  pc = "hubs" =>
    LET pages == UNION {Range(AllPages(hubs[h])) : h \in 1..Len(hubs)}
    IN  \A P, Q \in pages :
          P.id \in Range(Q.internal_links_from)
            <=> Q.id \in Range(P.internal_links_to)

\* C27: within every ContentHub the ids of all pages (pillar, cluster and
\* supporting pages) are pairwise distinct, also when the hub's entity is
\* connected to the same related entity by more than one relationship.
C27_PageIdsDistinct ==
  pc = "hubs" =>
    \A h \in 1..Len(hubs) :
      LET pages == AllPages(hubs[h])
      IN  \A i, j \in 1..Len(pages) : pages[i].id = pages[j].id => i = j

\* the ontology with the aliases of every entity left out
WithoutAliases(ont) ==
  [ont EXCEPT !.entities =
     [i \in 1..Len(ont.entities) |-> [ont.entities[i] EXCEPT !.aliases = << >>]]]

\* C23: the stages after OntologyBuilder change nothing in the ontology but
\* the aliases: after every later stage the entity list (ids, names, types,
\* scores and source_urls, in order) and the relationship list are those
\* build() returned, and HubDesigner leaves the taxonomy nodes and the query
\* clusters as they were.
C23_LaterStagesKeepOntology ==
  [][/\ pc' \in {"expanded", "taxonomy", "queries", "hubs"} =>
          WithoutAliases(ontology') = WithoutAliases(OntologyOf(builder', config'))
     /\ pc' = "hubs" => taxonomy' = taxonomy /\ query_clusters' = query_clusters]_vars

C23_Witness ==
  /\ pc = "hubs"
  /\ hubs # << >>
  /\ ontology # OntologyOf(builder, config)
  /\ ontology.relationships # << >>
  /\ \E e \in Range(ontology.entities) : e.source_urls # << >>

\* C24: the internal_links_to of every taxonomy node has at most 10
\* elements and none twice, made of its parent id, sibling ids, ids of its
\* direct children and ids of the nodes owning entities related to its own;
\* the first link of every node with a parent is that parent, and no node
\* links to itself.
C24_NodeLinksWellFormed ==
  pc \in {"taxonomy", "queries", "hubs"} =>
    \A n \in Range(taxonomy.nodes) :
      LET links == n.internal_links_to
          others == Range(taxonomy.nodes)
          parent == IF n.parent_id # None THEN {n.parent_id} ELSE {}
          siblings == {m.id : m \in {m \in others : m.parent_id = n.parent_id /\ m.id # n.id}}
          children == {m.id : m \in {m \in others : m.parent_id = n.id}}
          related == UNION {{pair.entity.id :
                               pair \in Range(GetRelatedEntities(ontology, n.entity_ids[k]))} :
                            k \in 1..Len(n.entity_ids)}
          owners == {m.id : m \in {m \in others : Range(m.entity_ids) \cap related # {}}}
      IN  /\ Len(links) <= MaxInternalLinks
          /\ \A i, j \in 1..Len(links) : links[i] = links[j] => i = j
          /\ Range(links) \subseteq parent \cup siblings \cup children \cup owners
          /\ n.parent_id # None => links # << >> /\ links[1] = n.parent_id
          /\ n.id \notin Range(links)


\* C29: for every node of a built taxonomy the parent-chain walks of
\* get_node_path and get_navigation_paths terminate, and the path they
\* return starts at the root and ends at the node.
C29_PathWalksTerminate ==
  pc \in {"taxonomy", "queries", "hubs"} =>
    \A n \in Range(taxonomy.nodes) :
      LET node_path == GetNodePath(taxonomy, n.id)
          navigation == GetNavigationPath(taxonomy.nodes, n.id)
          roots == {m \in Range(taxonomy.nodes) : m.parent_id = None}
      IN  /\ node_path.terminates
          /\ node_path.path # << >>
          /\ node_path.path[1] \in roots
          /\ node_path.path[Len(node_path.path)] = n
          /\ navigation.terminates
          /\ navigation.path # << >>
          /\ navigation.path[1] \in {m.name : m \in roots}
          /\ navigation.path[Len(navigation.path)] = n.name

\* C26: the queries of a cluster do not depend on the order in which the
\* aliases of the entity are stored: for every entity of the expanded
\* ontology and every two orders of its alias set, _create_query_cluster
\* returns clusters with the same set of query texts, also for an entity
\* with more than 5 aliases.
C26_QueriesIgnoreAliasOrder ==
  pc = "expanded" =>
    \A e \in Range(ontology.entities) :
      \A first_seed, second_seed \in 1..NumHashSeeds :
        LET TextsFor(hash_seed) ==
              {q.query_text :
                 q \in Range(CreateQueryCluster(
                         [e EXCEPT !.aliases =
                            SetToList(Range(e.aliases), hash_seed)]).queries)}
        IN  TextsFor(first_seed) = TextsFor(second_seed)

\* C28: a second build() on the same OntologyBuilder returns an ontology
\* with the set of entity ids and the multiset of relationships of the
\* first build: relationships are not accumulated across the calls.
C28_SecondBuildSame ==
  [][(pc = "ontology" /\ pc' = "built_again") =>
       LET IdsOf(o) == {o.entities[i].id : i \in 1..Len(o.entities)}
           Times(o, r) ==
             Cardinality({i \in 1..Len(o.relationships) : o.relationships[i] = r})
       IN  /\ IdsOf(ontology') = IdsOf(ontology)
           /\ \A r \in Range(ontology.relationships)
                         \cup Range(ontology'.relationships) :
                Times(ontology', r) = Times(ontology, r)]_vars

\* C30: in the session state, after every sequence of submit, pipeline
\* success, pipeline failure, next, back, sidebar navigation and start over:
\* step is in 0..8, step >= 1 only with an output, processing is false
\* whenever a step screen is rendered, and a failed pipeline run leaves step
\* and output as they were and processing false.
C30_SessionStateSafe ==
  /\ [](/\ session.step \in 0..8
        /\ session.step >= 1 => session.output # None
        /\ pc = "idle" => ~session.processing)
  /\ [][pc' = "failed" =>
          /\ session'.step = session.step
          /\ session'.output = session.output
          /\ ~session'.processing]_vars

\* a run has failed after an earlier run had stored its output
C30_Witness ==
  /\ pc = "failed"
  /\ session.output # None
  /\ session.config # None
====
